---------------------------- MODULE Spec2Model ----------------------------
(***************************************************************************)
(* A model of the query path of the Firebolt Rust SDK (src/src/client.rs,   *)
(* src/src/parser.rs): FireboltClient::query, execute_query_request with    *)
(* its single token-refresh retry, process_response_headers and             *)
(* parse_response.                                                          *)
(*                                                                          *)
(* Strings that the code parses (header values, URLs) are sequences of      *)
(* one-character strings, so that split, trim, starts_with and format! are  *)
(* computed as the code computes them.  The one pseudo character "x80"      *)
(* stands for a byte that is not visible ASCII (HeaderValue::to_str fails   *)
(* on it).  A parameter map (HashMap<String, String>) is a function whose   *)
(* domain is the set of its keys.                                           *)
(***************************************************************************)
EXTENDS Integers, Sequences, FiniteSets, TLC

(***************************************************************************)
(* Bounds of the model.                                                     *)
(***************************************************************************)
\* Number of query calls made on the session in one behaviour.
MaxQueries == 2

\* Number of query calls made on each of two sessions that run side by side.
MaxPeerQueries == 1

(***************************************************************************)
(* String helpers: the std::str operations the code uses.                   *)
(***************************************************************************)
EmptyStr == << >>

\* char::is_whitespace, restricted to the characters of the model
IsWhitespace(c) == c \in {" ", "\t"}

\* str::starts_with
StartsWith(s, p) ==
    /\ Len(s) >= Len(p)
    /\ SubSeq(s, 1, Len(p)) = p

\* str::ends_with(char)
EndsWithChar(s, c) == Len(s) > 0 /\ s[Len(s)] = c

\* index of the first occurrence of character c in s, 0 when there is none
IndexOf(s, c) ==
    IF \E i \in 1..Len(s) : s[i] = c
    THEN CHOOSE i \in 1..Len(s) : s[i] = c /\ \A j \in 1..(i - 1) : s[j] # c
    ELSE 0

\* index of the first character of s that belongs to cs, 0 when there is none
IndexOfAny(s, cs) ==
    IF \E i \in 1..Len(s) : s[i] \in cs
    THEN CHOOSE i \in 1..Len(s) : s[i] \in cs /\ \A j \in 1..(i - 1) : s[j] \notin cs
    ELSE 0

\* str::trim
Trim(s) ==
    IF \A i \in 1..Len(s) : IsWhitespace(s[i])
    THEN EmptyStr
    ELSE LET first == CHOOSE i \in 1..Len(s) :
                          ~IsWhitespace(s[i]) /\ \A j \in 1..(i - 1) : IsWhitespace(s[j])
             last  == CHOOSE i \in 1..Len(s) :
                          ~IsWhitespace(s[i]) /\ \A j \in (i + 1)..Len(s) : IsWhitespace(s[j])
         IN  SubSeq(s, first, last)

\* str::split(char): n separators give n + 1 segments, empty ones included
RECURSIVE Split(_, _)
Split(s, sep) ==
    LET i == IndexOf(s, sep)
    IN  IF i = 0
        THEN << s >>
        ELSE << SubSeq(s, 1, i - 1) >> \o Split(SubSeq(s, i + 1, Len(s)), sep)

\* str::splitn(2, char): split at the first separator only
SplitN2(s, sep) ==
    LET i == IndexOf(s, sep)
    IN  IF i = 0
        THEN << s >>
        ELSE << SubSeq(s, 1, i - 1), SubSeq(s, i + 1, Len(s)) >>

\* HeaderValue::to_str succeeds only on visible ASCII
ToStrOk(s) == \A i \in 1..Len(s) : s[i] # "x80"

(***************************************************************************)
(* HashMap<String, String>                                                  *)
(***************************************************************************)
EmptyMap == [k \in {} |-> EmptyStr]

\* MapInsert with the value of a key the map already holds kept
MapInsertIfAbsent(m, k, v) ==
    [x \in (DOMAIN m) \cup {k} |-> IF x \in DOMAIN m THEN m[x] ELSE v]

\* HashMap::insert
MapInsert(m, k, v) == [x \in (DOMAIN m) \cup {k} |-> IF x = k THEN v ELSE m[x]]

\* HashMap::remove
MapRemove(m, k) == [x \in (DOMAIN m) \ {k} |-> m[x]]

\* insert the pairs of a sequence in order (a for loop of inserts)
RECURSIVE InsertAll(_, _)
InsertAll(m, pairs) ==
    IF pairs = << >>
    THEN m
    ELSE InsertAll(MapInsert(m, pairs[1][1], pairs[1][2]), Tail(pairs))

(***************************************************************************)
(* Literals of the code and of the inputs.                                  *)
(***************************************************************************)
\* "database"
s_database == << "d", "a", "t", "a", "b", "a", "s", "e" >>
\* "engine"
s_engine == << "e", "n", "g", "i", "n", "e" >>
\* "output_format"
s_output_format == << "o", "u", "t", "p", "u", "t", "_", "f", "o", "r", "m", "a", "t" >>
\* "JSON_Compact"
s_JSON_Compact == << "J", "S", "O", "N", "_", "C", "o", "m", "p", "a", "c", "t" >>
\* "https://"
s_https == << "h", "t", "t", "p", "s", ":", "/", "/" >>
\* "http://"
s_http == << "h", "t", "t", "p", ":", "/", "/" >>


(***************************************************************************)
(* Errors (FireboltError) and results.                                      *)
(***************************************************************************)
NoError == [kind |-> "None", msg |-> << >>]

Err(kind, msg) == [kind |-> kind, msg |-> msg]

(***************************************************************************)
(* url::Url::parse, for the inputs of the model: absolute http/https URLs   *)
(* without userinfo and without percent-encoding.  fix_schema has run, so   *)
(* the text starts with "http://" or "https://".                            *)
(***************************************************************************)
\* FireboltClientFactory::fix_schema
FixSchema(url) ==
    IF StartsWith(url, s_https) \/ StartsWith(url, s_http)
    THEN url
    ELSE s_https \o url

\* form_urlencoded decoding of one name or value: '+' is a space
DecodePlus(s) == [i \in 1..Len(s) |-> IF s[i] = "+" THEN " " ELSE s[i]]

\* Url::query_pairs: split on '&', skip empty pieces, split each at its first '='
RECURSIVE QueryPairsOf(_)
QueryPairsOf(pieces) ==
    IF pieces = << >>
    THEN << >>
    ELSE LET piece == pieces[1]
             kv    == SplitN2(piece, "=")
             pair  == << DecodePlus(kv[1]),
                         IF Len(kv) = 2 THEN DecodePlus(kv[2]) ELSE EmptyStr >>
         IN  IF piece = EmptyStr
             THEN QueryPairsOf(Tail(pieces))
             ELSE << pair >> \o QueryPairsOf(Tail(pieces))

\* the text before the first character of cs (all of it when there is none)
Before(s, cs) ==
    IF IndexOfAny(s, cs) = 0 THEN s ELSE SubSeq(s, 1, IndexOfAny(s, cs) - 1)

\* the text from the first character of cs on (empty when there is none)
From(s, cs) ==
    IF IndexOfAny(s, cs) = 0 THEN EmptyStr ELSE SubSeq(s, IndexOfAny(s, cs), Len(s))

\* the text after the first character of cs (empty when there is none)
After(s, cs) ==
    IF IndexOfAny(s, cs) = 0 THEN EmptyStr ELSE SubSeq(s, IndexOfAny(s, cs) + 1, Len(s))

\* what follows "scheme://"
UrlRest(s) == SubSeq(s, IndexOf(s, ":") + 3, Len(s))

\* Url::host_str: the authority without its port
UrlHost(rest) == Before(Before(rest, {"/", "?", "#"}), {":"})

\* Url::path: a special scheme never has an empty path
UrlPath(rest) ==
    IF Before(From(rest, {"/", "?", "#"}), {"?", "#"}) = EmptyStr
    THEN << "/" >>
    ELSE Before(From(rest, {"/", "?", "#"}), {"?", "#"})

\* Url::query: what follows the first '?', without the fragment
UrlQuery(rest) == After(Before(rest, {"#"}), {"?"})

\* a host is not empty and holds no blank
HostOk(host) == host # EmptyStr /\ \A i \in 1..Len(host) : ~IsWhitespace(host[i])

\* Url::parse: [ok, scheme, host, path, query_pairs]
UrlParse(s) ==
    [ ok          |-> HostOk(UrlHost(UrlRest(s))),
      scheme      |-> Before(s, {":"}),
      host        |-> UrlHost(UrlRest(s)),
      path        |-> UrlPath(UrlRest(s)),
      query_pairs |-> QueryPairsOf(Split(UrlQuery(UrlRest(s)), "&")) ]

(***************************************************************************)
(* FireboltClient::process_response_headers.  A header is                   *)
(* [present, value]; the session part it works on is                        *)
(* st = [parameters, engine_url, err], err # NoError meaning that an        *)
(* earlier `?` has returned.                                                *)
(***************************************************************************)
\* ApplyEndpoint with the root path kept
ApplyEndpointKeepsRoot(st, url) ==
    [ parameters |-> InsertAll(st.parameters, url.query_pairs),
      engine_url |-> url.scheme \o << ":", "/", "/" >> \o url.host \o url.path,
      err        |-> IF url.ok
                     THEN NoError
                     ELSE Err("HeaderParsing", << "Invalid endpoint URL" >>) ]

\* client.rs 133-143: the session after a parsed endpoint URL
ApplyEndpoint(st, url) ==
    [ parameters |-> InsertAll(st.parameters, url.query_pairs),
      engine_url |-> IF url.path = << "/" >> \/ url.path = EmptyStr
                     THEN url.scheme \o << ":", "/", "/" >> \o url.host
                     ELSE url.scheme \o << ":", "/", "/" >> \o url.host \o url.path,
      err        |-> IF url.ok
                     THEN NoError
                     ELSE Err("HeaderParsing", << "Invalid endpoint URL" >>) ]

\* client.rs 125-144: Firebolt-Update-Endpoint
StepUpdateEndpoint(st, hdr) ==
    IF st.err # NoError \/ ~hdr.present
    THEN st
    ELSE IF ~ToStrOk(hdr.value)
    THEN [st EXCEPT !.err = Err("HeaderParsing", << "Invalid endpoint header" >>)]
    ELSE IF ~UrlParse(FixSchema(hdr.value)).ok
    THEN [st EXCEPT !.err = Err("HeaderParsing", << "Invalid endpoint URL" >>)]
    ELSE ApplyEndpoint(st, UrlParse(FixSchema(hdr.value)))

\* UpdateOne with an entry that has no '=' taken as a key with an empty value
UpdateOneLenient(st, param_pair, parts) ==
    IF Trim(parts[1]) = EmptyStr
    THEN st
    ELSE [st EXCEPT !.parameters =
             MapInsert(st.parameters, Trim(parts[1]),
                       IF Len(parts) = 2 THEN Trim(parts[2]) ELSE EmptyStr)]

\* client.rs 157-173: one non-empty entry of the list; parts is its splitn(2, '=')
UpdateOne(st, param_pair, parts) ==
    IF Len(parts) # 2
    THEN [st EXCEPT !.err =
             Err("HeaderParsing", << "Invalid parameter format: ", param_pair >>)]
    ELSE IF Trim(parts[1]) = EmptyStr
    THEN [st EXCEPT !.err = Err("HeaderParsing", << "Parameter key cannot be empty" >>)]
    ELSE [st EXCEPT !.parameters = MapInsert(st.parameters, Trim(parts[1]), Trim(parts[2]))]

\* client.rs 151-174: the loop over params_str.split(','), left at the first error
RECURSIVE UpdateParametersLoop(_, _)
UpdateParametersLoop(st, pieces) ==
    IF pieces = << >> \/ st.err # NoError
    THEN st
    ELSE IF Trim(pieces[1]) = EmptyStr
    THEN UpdateParametersLoop(st, Tail(pieces))
    ELSE UpdateParametersLoop(
             UpdateOne(st, Trim(pieces[1]), SplitN2(Trim(pieces[1]), "=")),
             Tail(pieces))

\* StepUpdateParameters with the map replaced by the pairs of the header
StepUpdateParametersReplaces(st, hdr) ==
    IF st.err # NoError \/ ~hdr.present
    THEN st
    ELSE IF ~ToStrOk(hdr.value)
    THEN [st EXCEPT !.err = Err("HeaderParsing", << "Invalid parameters header" >>)]
    ELSE UpdateParametersLoop([st EXCEPT !.parameters = EmptyMap], Split(hdr.value, ","))

\* client.rs 146-175: Firebolt-Update-Parameters
StepUpdateParameters(st, hdr) ==
    IF st.err # NoError \/ ~hdr.present
    THEN st
    ELSE IF ~ToStrOk(hdr.value)
    THEN [st EXCEPT !.err = Err("HeaderParsing", << "Invalid parameters header" >>)]
    ELSE UpdateParametersLoop(st, Split(hdr.value, ","))

\* StepResetSession with database alone kept
StepResetSessionKeepsDatabase(st, hdr) ==
    IF st.err # NoError \/ ~hdr.present
    THEN st
    ELSE [st EXCEPT !.parameters =
             [k \in (DOMAIN st.parameters) \cap {s_database} |-> st.parameters[k]]]

\* client.rs 177-189: Firebolt-Reset-Session (contains_key: the value is not read)
StepResetSession(st, hdr) ==
    IF st.err # NoError \/ ~hdr.present
    THEN st
    ELSE LET kept == (DOMAIN st.parameters) \cap {s_database, s_engine}
         IN  [st EXCEPT !.parameters = [k \in kept |-> st.parameters[k]]]

\* RemoveParametersLoop with the names not trimmed
RECURSIVE RemoveParametersLoopNoTrim(_, _)
RemoveParametersLoopNoTrim(params, pieces) ==
    IF pieces = << >>
    THEN params
    ELSE IF pieces[1] # EmptyStr
    THEN RemoveParametersLoopNoTrim(MapRemove(params, pieces[1]), Tail(pieces))
    ELSE RemoveParametersLoopNoTrim(params, Tail(pieces))

\* client.rs 196-201: the loop over remove_str.split(',')
RECURSIVE RemoveParametersLoop(_, _)
RemoveParametersLoop(params, pieces) ==
    IF pieces = << >>
    THEN params
    ELSE LET param_name == Trim(pieces[1])
         IN  IF param_name # EmptyStr
             THEN RemoveParametersLoop(MapRemove(params, param_name), Tail(pieces))
             ELSE RemoveParametersLoop(params, Tail(pieces))

\* client.rs 191-202: Firebolt-Remove-Parameters
StepRemoveParameters(st, hdr) ==
    IF st.err # NoError \/ ~hdr.present
    THEN st
    ELSE IF ~ToStrOk(hdr.value)
    THEN [st EXCEPT !.err = Err("HeaderParsing", << "Invalid remove parameters header" >>)]
    ELSE [st EXCEPT !.parameters = RemoveParametersLoop(st.parameters, Split(hdr.value, ","))]

\* ProcessResponseHeaders with the session reset before the parameters are updated
ProcessResponseHeadersResetFirst(params, url, headers) ==
    StepRemoveParameters(
        StepUpdateParameters(
            StepResetSession(
                StepUpdateEndpoint([parameters |-> params, engine_url |-> url, err |-> NoError],
                                   headers.update_endpoint),
                headers.reset_session),
            headers.update_parameters),
        headers.remove_parameters)

\* ProcessResponseHeaders with the session put back as it was when a step fails
ProcessResponseHeadersAtomic(params, url, headers) ==
    IF StepUpdateParameters(
           StepUpdateEndpoint([parameters |-> params, engine_url |-> url, err |-> NoError],
                              headers.update_endpoint),
           headers.update_parameters).err # NoError
    THEN [ parameters |-> params, engine_url |-> url,
           err |-> StepUpdateParameters(
                       StepUpdateEndpoint(
                           [parameters |-> params, engine_url |-> url, err |-> NoError],
                           headers.update_endpoint),
                       headers.update_parameters).err ]
    ELSE StepRemoveParameters(
             StepResetSession(
                 StepUpdateParameters(
                     StepUpdateEndpoint(
                         [parameters |-> params, engine_url |-> url, err |-> NoError],
                         headers.update_endpoint),
                     headers.update_parameters),
                 headers.reset_session),
             headers.remove_parameters)

\* client.rs 121-205: the four steps in the order of the code
ProcessResponseHeaders(params, url, headers) ==
    LET st0 == [parameters |-> params, engine_url |-> url, err |-> NoError]
        st1 == StepUpdateEndpoint(st0, headers.update_endpoint)
        st2 == StepUpdateParameters(st1, headers.update_parameters)
        st3 == StepResetSession(st2, headers.reset_session)
        st4 == StepRemoveParameters(st3, headers.remove_parameters)
    IN  st4

\* ensure_trailing_slash with the '/' added whatever the URL ends in
EnsureTrailingSlashAlways(url) == url \o << "/" >>

\* client.rs 208-214
ensure_trailing_slash(url) ==
    IF EndsWithChar(url, "/") THEN url ELSE url \o << "/" >>


(***************************************************************************)
(* parser.rs: parse_type.  A wire type descriptor is a string.              *)
(***************************************************************************)
\* "null::"
s_null_prefix == << "n", "u", "l", "l", ":", ":" >>
\* "decimal("
s_decimal_open == << "d", "e", "c", "i", "m", "a", "l", "(" >>
\* "array"
s_array == << "a", "r", "r", "a", "y" >>
\* "struct"
s_struct == << "s", "t", "r", "u", "c", "t" >>
\* "int"
s_int == << "i", "n", "t" >>

Digits == {"0", "1", "2", "3", "4", "5", "6", "7", "8", "9"}

DigitVal(c) ==
    CASE c = "0" -> 0 [] c = "1" -> 1 [] c = "2" -> 2 [] c = "3" -> 3 [] c = "4" -> 4
      [] c = "5" -> 5 [] c = "6" -> 6 [] c = "7" -> 7 [] c = "8" -> 8 [] c = "9" -> 9

\* the value of a run of decimal digits, computed as str::parse::<i32> does with
\* checked arithmetic: -1 when it passes i32::MAX = 2147483647
RECURSIVE DecimalValue(_)
DecimalValue(ds) ==
    IF ds = << >>
    THEN 0
    ELSE LET hi == DecimalValue(SubSeq(ds, 1, Len(ds) - 1))
             d  == DigitVal(ds[Len(ds)])
         IN  IF hi = -1 \/ hi > 214748364 \/ (hi = 214748364 /\ d > 7)
             THEN -1
             ELSE 10 * hi + d

\* str::parse::<i32> of a run of digits
ParseI32(ds) ==
    LET v == DecimalValue(ds)
    IN  [ok |-> v # -1, v |-> v]

\* last index of the longest run of characters of cs that starts at j (j - 1: no run)
RunEnd(s, j, cs) ==
    IF j > Len(s)
    THEN j - 1
    ELSE CHOOSE e \in (j - 1)..Len(s) :
             /\ \A x \in j..e : s[x] \in cs
             /\ e = Len(s) \/ s[e + 1] \notin cs

\* the scale and the closing parenthesis of a match whose scale starts at p2
DecimalMatchScale(s, ok_so_far, precision, p2) ==
    [ ok |-> /\ ok_so_far
             /\ RunEnd(s, p2, Digits) >= p2
             /\ RunEnd(s, p2, Digits) + 1 <= Len(s)
             /\ s[RunEnd(s, p2, Digits) + 1] = ")",
      precision |-> precision,
      scale     |-> SubSeq(s, p2, RunEnd(s, p2, Digits)) ]

\* the precision of a match whose digits run from p1 to e1, the comma and the blanks
DecimalMatchPrecision(s, ok_so_far, p1, e1) ==
    DecimalMatchScale(s,
                      ok_so_far /\ e1 >= p1 /\ e1 + 1 <= Len(s) /\ s[e1 + 1] = ",",
                      SubSeq(s, p1, e1),
                      RunEnd(s, e1 + 2, {" ", "\t"}) + 1)

\* a match of the regex decimal\((\d+),\s*(\d+)\) starting at index i
DecimalMatchAt(s, i) ==
    DecimalMatchPrecision(s,
                          /\ i + Len(s_decimal_open) - 1 <= Len(s)
                          /\ SubSeq(s, i, i + Len(s_decimal_open) - 1) = s_decimal_open,
                          i + Len(s_decimal_open),
                          RunEnd(s, i + Len(s_decimal_open), Digits))

\* Regex::captures: the leftmost match anywhere in the text
DecimalCaptures(s) ==
    IF \E i \in 1..Len(s) : DecimalMatchAt(s, i).ok
    THEN DecimalMatchAt(s, CHOOSE i \in 1..Len(s) :
                               /\ DecimalMatchAt(s, i).ok
                               /\ \A j \in 1..(i - 1) : ~DecimalMatchAt(s, j).ok)
    ELSE [ok |-> FALSE, precision |-> << >>, scale |-> << >>]

\* Option<i32>
None == [some |-> FALSE, v |-> 0]

Some(v) == [some |-> TRUE, v |-> v]

\* the result of parse_type
TypeOk(type, is_nullable, precision, scale) ==
    [ ok |-> TRUE, type |-> type, is_nullable |-> is_nullable,
      precision |-> precision, scale |-> scale, err |-> NoError ]

TypeErr(e) ==
    [ ok |-> FALSE, type |-> "None", is_nullable |-> FALSE,
      precision |-> None, scale |-> None, err |-> e ]

\* parser.rs 30-49: the alias table
BaseType(clean_type) ==
    CASE clean_type = s_int -> "Int"
      [] clean_type \in { << "b", "i", "g", "i", "n", "t" >>, << "l", "o", "n", "g" >> } -> "Long"
      [] clean_type \in { << "f", "l", "o", "a", "t", "4" >>, << "f", "l", "o", "a", "t" >> } -> "Float"
      [] clean_type \in { << "d", "o", "u", "b", "l", "e" >>, << "f", "l", "o", "a", "t", "8" >> } -> "Double"
      [] clean_type = << "d", "e", "c", "i", "m", "a", "l" >> -> "Decimal"
      [] clean_type \in { << "t", "e", "x", "t" >>, << "s", "t", "r", "i", "n", "g" >> } -> "Text"
      [] clean_type = << "d", "a", "t", "e" >> -> "Date"
      [] clean_type = << "t", "i", "m", "e", "s", "t", "a", "m", "p" >> -> "Timestamp"
      [] clean_type = << "t", "i", "m", "e", "s", "t", "a", "m", "p", "t", "z" >> -> "TimestampTZ"
      [] clean_type \in { << "b", "o", "o", "l" >>, << "b", "o", "o", "l", "e", "a", "n" >> } -> "Boolean"
      [] clean_type = << "b", "y", "t", "e", "a" >> -> "Bytes"
      [] clean_type = << "g", "e", "o", "g", "r", "a", "p", "h", "y" >> -> "Geography"
      [] OTHER -> IF StartsWith(clean_type, s_struct) THEN "Struct" ELSE "Unsupported"

\* parser.rs 15-23: the type of a text the decimal regex matches
DecimalType(is_nullable, captures) ==
    IF ~ParseI32(captures.precision).ok
    THEN TypeErr(Err("Query", << "Invalid decimal precision" >>))
    ELSE IF ~ParseI32(captures.scale).ok
    THEN TypeErr(Err("Query", << "Invalid decimal scale" >>))
    ELSE TypeOk("Decimal", is_nullable,
                Some(ParseI32(captures.precision).v), Some(ParseI32(captures.scale).v))

\* parser.rs 14-51: the type of the text left once "null::" is stripped
ParseCleanType(is_nullable, clean_type) ==
    IF DecimalCaptures(clean_type).ok
    THEN DecimalType(is_nullable, DecimalCaptures(clean_type))
    ELSE IF StartsWith(clean_type, s_array)
    THEN TypeOk("Array", is_nullable, None, None)
    ELSE IF BaseType(clean_type) = "Unsupported"
    THEN TypeErr(Err("Query", << "Unsupported type: ", clean_type >>))
    ELSE TypeOk(BaseType(clean_type), is_nullable, None, None)

\* ParseType with four characters stripped for the six of "null::"
ParseTypeShortStrip(type_str) ==
    IF StartsWith(type_str, s_null_prefix)
    THEN ParseCleanType(TRUE, SubSeq(type_str, 5, Len(type_str)))
    ELSE ParseCleanType(FALSE, type_str)

\* parser.rs 6-52
ParseType(type_str) ==
    IF StartsWith(type_str, s_null_prefix)
    THEN ParseCleanType(TRUE, SubSeq(type_str, 7, Len(type_str)))
    ELSE ParseCleanType(FALSE, type_str)

(***************************************************************************)
(* serde_json::Value: a record with t the kind of the value and one field   *)
(* per kind: b the boolean, s the string or the literal of the number as    *)
(* the document spells it, a the items of an array, o the fields of an      *)
(* object (a function from the field names).                                *)
(***************************************************************************)
JNull == [t |-> "null", b |-> FALSE, s |-> EmptyStr, a |-> << >>, o |-> << >>]

JNum(literal) == [JNull EXCEPT !.t = "number", !.s = literal]

JBool(b) == [JNull EXCEPT !.t = "bool", !.b = b]

JStr(s) == [JNull EXCEPT !.t = "string", !.s = s]

JArr(items) == [JNull EXCEPT !.t = "array", !.a = items]

JObj(fields) == [JNull EXCEPT !.t = "object", !.o = fields]

\* Value::get(&str): Some only on an object that has the field
JGet(j, field) ==
    IF j.t = "object" /\ field \in DOMAIN j.o
    THEN [some |-> TRUE, v |-> j.o[field]]
    ELSE [some |-> FALSE, v |-> JNull]

\* json.get(field).and_then(|x| x.as_array())
JGetArray(j, field) ==
    LET g == JGet(j, field)
    IN  IF g.some /\ g.v.t = "array" THEN [some |-> TRUE, v |-> g.v.a] ELSE [some |-> FALSE, v |-> << >>]

\* json.get(field).and_then(|x| x.as_str())
JGetStr(j, field) ==
    LET g == JGet(j, field)
    IN  IF g.some /\ g.v.t = "string" THEN [some |-> TRUE, v |-> g.v.s] ELSE [some |-> FALSE, v |-> << >>]

(***************************************************************************)
(* Result<ResultSet, FireboltError>                                         *)
(***************************************************************************)
NoResultSet == [columns |-> << >>, rows |-> << >>]

Ok(rs) == [ok |-> TRUE, value |-> rs, err |-> NoError]

Fail(e) == [ok |-> FALSE, value |-> NoResultSet, err |-> e]

\* the value of `result` while the call has not returned
Pending == [ok |-> FALSE, value |-> NoResultSet, err |-> Err("Pending", << >>)]

(***************************************************************************)
(* parser.rs: parse_columns, parse_data, parse_response, parse_server_error *)
(***************************************************************************)
\* parser.rs 74-80: the Column of a meta entry whose type parse_type accepted
MakeColumn(name, ty) ==
    [ name |-> name, type |-> ty.type, precision |-> ty.precision,
      scale |-> ty.scale, is_nullable |-> ty.is_nullable ]

ColumnsErr(e) == [ok |-> FALSE, columns |-> << >>, err |-> e]

\* parser.rs 61-80: one meta entry
ColumnOf(col) ==
    IF ~JGetStr(col, "name").some
    THEN ColumnsErr(Err("Query", << "Missing column name" >>))
    ELSE IF ~JGetStr(col, "type").some
    THEN ColumnsErr(Err("Query", << "Missing column type" >>))
    ELSE IF ~ParseType(JGetStr(col, "type").v).ok
    THEN ColumnsErr(ParseType(JGetStr(col, "type").v).err)
    ELSE [ ok |-> TRUE,
           columns |-> << MakeColumn(JGetStr(col, "name").v, ParseType(JGetStr(col, "type").v)) >>,
           err |-> NoError ]

\* Result's collect(): the first Err, or all the items
ColumnsCons(first, rest) ==
    IF ~first.ok THEN first
    ELSE IF ~rest.ok THEN rest
    ELSE [ok |-> TRUE, columns |-> first.columns \o rest.columns, err |-> NoError]

\* parser.rs 59-82: meta.iter().map(..).collect(), which stops at the first Err
RECURSIVE ColumnsOf(_)
ColumnsOf(meta) ==
    IF meta = << >>
    THEN [ok |-> TRUE, columns |-> << >>, err |-> NoError]
    ELSE ColumnsCons(ColumnOf(meta[1]), ColumnsOf(Tail(meta)))

\* parser.rs 54-83
ParseColumns(json) ==
    LET meta == JGetArray(json, "meta")
    IN  IF ~meta.some
        THEN [ ok |-> FALSE, columns |-> << >>,
               err |-> Err("Query", << "Missing or invalid 'meta' field in response" >>) ]
        ELSE ColumnsOf(meta.v)

\* parser.rs 93-102: data.iter().map(..).collect()
RECURSIVE RowsOf(_, _)
RowsOf(data, columns) ==
    IF data = << >>
    THEN [ok |-> TRUE, rows |-> << >>, err |-> NoError]
    ELSE LET row_array == data[1]
             rest      == RowsOf(Tail(data), columns)
         IN  IF row_array.t # "array"
             THEN [ ok |-> FALSE, rows |-> << >>,
                    err |-> Err("Query", << "Row data is not an array" >>) ]
             ELSE IF ~rest.ok
             THEN rest
             ELSE [ ok |-> TRUE,
                    rows |-> << [data |-> row_array.a, columns |-> columns] >> \o rest.rows,
                    err |-> NoError ]

\* parser.rs 85-103
ParseData(json, columns) ==
    LET data == JGetArray(json, "data")
    IN  IF ~data.some
        THEN [ ok |-> FALSE, rows |-> << >>,
               err |-> Err("Query", << "Missing or invalid 'data' field in response" >>) ]
        ELSE RowsOf(data.v, columns)

\* ParseResponse with the data looked at before the meta
ParseResponseDataFirst(body) ==
    IF ~body.json.ok
    THEN Fail(Err("Serialization", << "Failed to parse JSON" >>))
    ELSE IF ~JGetArray(body.json.value, "data").some
    THEN Fail(Err("Query", << "Missing or invalid 'data' field in response" >>))
    ELSE IF ~ParseColumns(body.json.value).ok
    THEN Fail(ParseColumns(body.json.value).err)
    ELSE IF ~ParseData(body.json.value, ParseColumns(body.json.value).columns).ok
    THEN Fail(ParseData(body.json.value, ParseColumns(body.json.value).columns).err)
    ELSE Ok([ columns |-> ParseColumns(body.json.value).columns,
              rows |-> ParseData(body.json.value, ParseColumns(body.json.value).columns).rows ])

\* parser.rs 105-113.  body.json is what serde_json::from_str makes of body.text
ParseResponse(body) ==
    LET columns == ParseColumns(body.json.value)
        rows    == ParseData(body.json.value, columns.columns)
    IN  IF ~body.json.ok
        THEN Fail(Err("Serialization", << "Failed to parse JSON" >>))
        ELSE IF ~columns.ok
        THEN Fail(columns.err)
        ELSE IF ~rows.ok
        THEN Fail(rows.err)
        ELSE Ok([columns |-> columns.columns, rows |-> rows.rows])

\* parse_server_error with the body returned as the whole message
ParseServerErrorNoPrefix(body_text) == Err("Query", << body_text >>)

\* parser.rs 115-117
parse_server_error(body_text) == Err("Query", << "Server error: ", body_text >>)


(***************************************************************************)
(* What the server sends.  A header is written by the server from what it   *)
(* means (a URL, a list of pairs, a list of keys) in one of several         *)
(* spellings; the client sees the written value only.                       *)
(***************************************************************************)
\* join the strings of a sequence with a separator
RECURSIVE Join(_, _)
Join(items, sep) ==
    IF items = << >> THEN EmptyStr
    ELSE IF Len(items) = 1 THEN items[1]
    ELSE items[1] \o sep \o Join(Tail(items), sep)

\* a pair as key=value; the "spaced" spelling pads key and value with blanks
WritePair(pair, style) ==
    IF style = "spaced"
    THEN << " " >> \o pair[1] \o << " ", "=", " " >> \o pair[2] \o << " " >>
    ELSE pair[1] \o << "=" >> \o pair[2]

\* a key; the "spaced" spelling pads it with blanks
WriteKey(key, style) ==
    IF style = "spaced" THEN << " " >> \o key \o << " " >> ELSE key

\* a comma-separated list; the "commas" spelling doubles the commas and ends in one
WriteList(items, style) ==
    IF style = "commas"
    THEN Join(items, << ",", "," >>) \o << "," >>
    ELSE Join(items, << "," >>)

WriteStyles == {"plain", "spaced", "commas"}

\* an absolute URL, or host and path alone when the server leaves the scheme out
WriteUrl(u) ==
    (IF u.bare THEN EmptyStr ELSE u.scheme \o << ":", "/", "/" >>)
        \o u.host
        \o (IF u.port = EmptyStr THEN EmptyStr ELSE << ":" >> \o u.port)
        \o u.path
        \o (IF u.query = << >>
            THEN EmptyStr
            ELSE << "?" >> \o Join([i \in 1..Len(u.query) |-> WritePair(u.query[i], "plain")],
                                   << "&" >>))

NoUrl ==
    [ bare |-> FALSE, scheme |-> EmptyStr, host |-> EmptyStr, port |-> EmptyStr,
      path |-> EmptyStr, query |-> << >> ]

\* header options: what the server means (url, pairs, keys), whether the written
\* value is well-formed, and the written value
AbsentHeader ==
    [present |-> FALSE, wf |-> TRUE, url |-> NoUrl, pairs |-> << >>, keys |-> << >>, wire |-> EmptyStr]

EndpointHeader(u) == [AbsentHeader EXCEPT !.present = TRUE, !.url = u, !.wire = WriteUrl(u)]

PairsHeader(pairs, style) ==
    [AbsentHeader EXCEPT !.present = TRUE, !.pairs = pairs,
        !.wire = WriteList([i \in 1..Len(pairs) |-> WritePair(pairs[i], style)], style)]

KeysHeader(keys, style) ==
    [AbsentHeader EXCEPT !.present = TRUE, !.keys = keys,
        !.wire = WriteList([i \in 1..Len(keys) |-> WriteKey(keys[i], style)], style)]

FlagHeader(value) == [AbsentHeader EXCEPT !.present = TRUE, !.wire = value]

MalformedHeader(value) == [AbsentHeader EXCEPT !.present = TRUE, !.wf = FALSE, !.wire = value]

\* a list of pairs followed by an entry the client cannot parse
PartialPairsHeader(pairs, bad) ==
    [AbsentHeader EXCEPT !.present = TRUE, !.wf = FALSE, !.pairs = pairs,
        !.wire = Join([i \in 1..Len(pairs) |-> WritePair(pairs[i], "plain")] \o << bad >>,
                      << "," >>)]

\* the header as the client receives it
OnWire(h) == [present |-> h.present, value |-> h.wire]

\* "https://e2/p?k=v&m=w"
Url1 == [ bare |-> FALSE, scheme |-> << "h", "t", "t", "p", "s" >>, host |-> << "e", "2" >>,
          port |-> EmptyStr, path |-> << "/", "p" >>,
          query |-> << << << "k" >>, << "v" >> >>, << << "m" >>, << "w" >> >> >> ]
\* "http://e3"
Url2 == [ bare |-> FALSE, scheme |-> << "h", "t", "t", "p" >>, host |-> << "e", "3" >>,
          port |-> EmptyStr, path |-> EmptyStr, query |-> << >> ]
\* "e4/?database=d9": no scheme, root path
Url3 == [ bare |-> TRUE, scheme |-> << "h", "t", "t", "p", "s" >>, host |-> << "e", "4" >>,
          port |-> EmptyStr, path |-> << "/" >>, query |-> << << s_database, << "d", "9" >> >> >> ]
\* "https://e5:8443/q?k=v&k=w": a port, and a key given twice
Url4 == [ bare |-> FALSE, scheme |-> << "h", "t", "t", "p", "s" >>, host |-> << "e", "5" >>,
          port |-> << "8", "4", "4", "3" >>, path |-> << "/", "q" >>,
          query |-> << << << "k" >>, << "v" >> >>, << << "k" >>, << "w" >> >> >> ]

\* database=d2,engine=e2
Pairs1 == << << s_database, << "d", "2" >> >>, << s_engine, << "e", "2" >> >> >>
\* k=1,k=2: a key listed twice
Pairs2 == << << << "k" >>, << "1" >> >>, << << "k" >>, << "2" >> >> >>
\* m=a=b,n=1: a value holding '='
Pairs3 == << << << "m" >>, << "a", "=", "b" >> >>, << << "n" >>, << "1" >> >> >>

\* output_format=CSV,k=9
Pairs4 == << << s_output_format, << "C", "S", "V" >> >>, << << "k" >>, << "9" >> >> >>

\* k
Keys1 == << << "k" >> >>
\* database,z: a session key and a key no session has
Keys2 == << s_database, << "z" >> >>
\* k,m,engine
Keys3 == << << "k" >>, << "m" >>, s_engine >>

\* headers of the responses of Spec
EndpointHeaders == {AbsentHeader, EndpointHeader(Url1)}

ParametersHeaders ==
    {AbsentHeader, PairsHeader(Pairs1, "plain"), MalformedHeader(<< "=", "v" >>)}

ResetHeaders == {AbsentHeader, FlagHeader(<< "t", "r", "u", "e" >>)}

RemoveHeaders == {AbsentHeader, KeysHeader(Keys1, "plain")}

\* headers of the responses of HeaderSpec
AllEndpointHeaders ==
    {AbsentHeader, EndpointHeader(Url1), EndpointHeader(Url2), EndpointHeader(Url3),
     EndpointHeader(Url4), MalformedHeader(EmptyStr)}

AllParametersHeaders ==
    {AbsentHeader}
        \cup {PairsHeader(ps, st) : ps \in {Pairs1, Pairs2, Pairs3}, st \in WriteStyles}
        \cup { MalformedHeader(<< "=", "v" >>),
               MalformedHeader(<< "m" >>),
               PartialPairsHeader(Pairs1, << "m" >>),
               PartialPairsHeader(Pairs2, << " ", "=", "v" >>),
               MalformedHeader(<< "k", "=", "x80" >>) }

AllResetHeaders == {AbsentHeader, FlagHeader(<< "t", "r", "u", "e" >>), FlagHeader(<< "x80" >>)}

AllRemoveHeaders ==
    {AbsentHeader}
        \cup {KeysHeader(ks, st) : ks \in {Keys1, Keys2, Keys3}, st \in WriteStyles}
        \cup {MalformedHeader(<< "k", ",", "x80" >>)}

(***************************************************************************)
(* Response bodies: the text, whether reading it from the connection        *)
(* succeeds (response.text()), and what serde_json::from_str makes of it.   *)
(***************************************************************************)
NotJson == [ok |-> FALSE, value |-> JNull]

Json(v) == [ok |-> TRUE, value |-> v]

\* "test"
s_test == << "t", "e", "s", "t" >>

MetaEntry(name, type_str) == JObj(("name" :> JStr(name)) @@ ("type" :> JStr(type_str)))

GoodBody ==
    [ readable |-> TRUE,
      text |-> "{\"meta\": [{\"name\": \"test\", \"type\": \"int\"}], \"data\": [[1]]}",
      json |-> Json(JObj(("meta" :> JArr(<< MetaEntry(s_test, s_int) >>))
                         @@ ("data" :> JArr(<< JArr(<< JNum(<< "1" >>) >>) >>)))) ]

EmptyResultBody ==
    [ readable |-> TRUE,
      text |-> "{\"meta\": [], \"data\": []}",
      json |-> Json(JObj(("meta" :> JArr(<< >>)) @@ ("data" :> JArr(<< >>)))) ]

ErrorTextBody ==
    [readable |-> TRUE, text |-> "Internal Server Error", json |-> NotJson]

NoMetaBody ==
    [ readable |-> TRUE,
      text |-> "{\"data\": [[1]]}",
      json |-> Json(JObj("data" :> JArr(<< JArr(<< JNum(<< "1" >>) >>) >>))) ]

\* the connection breaks while the body is read
UnreadableBody == [readable |-> FALSE, text |-> "", json |-> NotJson]

\* the result sets that GoodBody and EmptyResultBody spell
TestColumn ==
    [name |-> s_test, type |-> "Int", precision |-> None, scale |-> None, is_nullable |-> FALSE]

GoodResultSet ==
    [ columns |-> << TestColumn >>,
      rows    |-> << [data |-> << JNum(<< "1" >>) >>, columns |-> << TestColumn >>] >> ]

DecodableBodies == {GoodBody, EmptyResultBody}

Decoded(body) == IF body = GoodBody THEN GoodResultSet ELSE NoResultSet

Bodies == {GoodBody, EmptyResultBody, ErrorTextBody, NoMetaBody, UnreadableBody}

\* a body whose one row holds two values under the one column of GoodBody
WideRowBody ==
    [ readable |-> TRUE,
      text |-> "{\"meta\": [{\"name\": \"test\", \"type\": \"int\"}], \"data\": [[1, 2]]}",
      json |-> Json(JObj(("meta" :> JArr(<< MetaEntry(s_test, s_int) >>))
                         @@ ("data" :> JArr(<< JArr(<< JNum(<< "1" >>), JNum(<< "2" >>) >>) >>)))) ]

\* bodies that parse_response rejects: no data, meta not an array, data not an array,
\* a row that is not an array, a column type that is not supported, a column without
\* a name, neither meta nor data, and a truncated document
UndecodableBodies ==
    { ErrorTextBody, NoMetaBody,
      [ readable |-> TRUE,
        text |-> "{\"meta\": [{\"name\": \"test\", \"type\": \"int\"}]}",
        json |-> Json(JObj("meta" :> JArr(<< MetaEntry(s_test, s_int) >>))) ],
      [ readable |-> TRUE,
        text |-> "{\"meta\": \"test\", \"data\": [[1]]}",
        json |-> Json(JObj(("meta" :> JStr(s_test))
                           @@ ("data" :> JArr(<< JArr(<< JNum(<< "1" >>) >>) >>)))) ],
      [ readable |-> TRUE,
        text |-> "{\"meta\": [{\"name\": \"test\", \"type\": \"int\"}], \"data\": 1}",
        json |-> Json(JObj(("meta" :> JArr(<< MetaEntry(s_test, s_int) >>))
                           @@ ("data" :> JNum(<< "1" >>)))) ],
      [ readable |-> TRUE,
        text |-> "{\"meta\": [{\"name\": \"test\", \"type\": \"int\"}], \"data\": [[1], 2]}",
        json |-> Json(JObj(("meta" :> JArr(<< MetaEntry(s_test, s_int) >>))
                           @@ ("data" :> JArr(<< JArr(<< JNum(<< "1" >>) >>), JNum(<< "2" >>) >>)))) ],
      [ readable |-> TRUE,
        text |-> "{\"meta\": [{\"name\": \"test\", \"type\": \"json\"}], \"data\": [[1]]}",
        json |-> Json(JObj(("meta" :> JArr(<< MetaEntry(s_test, << "j", "s", "o", "n" >>) >>))
                           @@ ("data" :> JArr(<< JArr(<< JNum(<< "1" >>) >>) >>)))) ],
      [ readable |-> TRUE,
        text |-> "{\"meta\": [{\"type\": \"int\"}], \"data\": 1}",
        json |-> Json(JObj(("meta" :> JArr(<< JObj("type" :> JStr(s_int)) >>))
                           @@ ("data" :> JNum(<< "1" >>)))) ],
      [ readable |-> TRUE,
        text |-> "{}",
        json |-> Json(JObj(<< >>)) ],
      [ readable |-> TRUE,
        text |-> "{\"meta\": [",
        json |-> NotJson ] }

\* the bodies parse_response is given
DecodeBodies == DecodableBodies \cup {WideRowBody} \cup UndecodableBodies

Statuses == {200, 204, 401, 404, 500}

NoHeaders ==
    [ update_endpoint |-> AbsentHeader, update_parameters |-> AbsentHeader,
      reset_session |-> AbsentHeader, remove_parameters |-> AbsentHeader ]

\* no response: the request is in flight
NoResponse == [status |-> 0, sent |-> NoHeaders, body |-> UnreadableBody]

\* the header map of a response, as reqwest gives it to the client
HeadersOf(resp) ==
    [ update_endpoint   |-> OnWire(resp.sent.update_endpoint),
      update_parameters |-> OnWire(resp.sent.update_parameters),
      reset_session     |-> OnWire(resp.sent.reset_session),
      remove_parameters |-> OnWire(resp.sent.remove_parameters) ]


(***************************************************************************)
(* The descriptors parse_type is given: the aliases of its table, arrays,   *)
(* structs, decimals with precision and scale (well-formed, out of the      *)
(* range of i32, incomplete, or inside a longer text) and texts that are no *)
(* type; each of them also behind "null::".                                 *)
(***************************************************************************)
TypeBases ==
    {
      s_int,
      << "b", "i", "g", "i", "n", "t" >>,
      << "l", "o", "n", "g" >>,
      << "f", "l", "o", "a", "t", "4" >>,
      << "f", "l", "o", "a", "t" >>,
      << "d", "o", "u", "b", "l", "e" >>,
      << "f", "l", "o", "a", "t", "8" >>,
      << "d", "e", "c", "i", "m", "a", "l" >>,
      << "t", "e", "x", "t" >>,
      << "s", "t", "r", "i", "n", "g" >>,
      << "d", "a", "t", "e" >>,
      << "t", "i", "m", "e", "s", "t", "a", "m", "p" >>,
      << "t", "i", "m", "e", "s", "t", "a", "m", "p", "t", "z" >>,
      << "b", "o", "o", "l" >>,
      << "b", "o", "o", "l", "e", "a", "n" >>,
      << "b", "y", "t", "e", "a" >>,
      << "g", "e", "o", "g", "r", "a", "p", "h", "y" >>,
      << "a", "r", "r", "a", "y", "(", "i", "n", "t", ")" >>,
      << "a", "r", "r", "a", "y" >>,
      << "a", "r", "r", "a", "y", "s" >>,
      << "s", "t", "r", "u", "c", "t", "(", "a", " ", "i", "n", "t", ")" >>,
      << "s", "t", "r", "u", "c", "t", "u", "r", "e" >>,
      << "d", "e", "c", "i", "m", "a", "l", "(", "3", "8", ",", "9", ")" >>,
      << "d", "e", "c", "i", "m", "a", "l", "(", "3", "8", ",", " ", "9", ")" >>,
      << "d", "e", "c", "i", "m", "a", "l", "(", "5", ",", "2", ")" >>,
      << "d", "e", "c", "i", "m", "a", "l", "(", "0", ",", "0", ")" >>,
      << "d", "e", "c", "i", "m", "a", "l", "(", "2", "1", "4", "7", "4", "8", "3", "6", "4", "7", ",", "1", ")" >>,
      << "d", "e", "c", "i", "m", "a", "l", "(", "2", "1", "4", "7", "4", "8", "3", "6", "4", "8", ",", "1", ")" >>,
      << "d", "e", "c", "i", "m", "a", "l", "(", "1", ",", "9", "9", "9", "9", "9", "9", "9", "9", "9", "9", "9", ")" >>,
      << "x", "d", "e", "c", "i", "m", "a", "l", "(", "1", ",", "2", ")" >>,
      << "d", "e", "c", "i", "m", "a", "l", "(", "1", ",", "2", ")", "x" >>,
      << "a", "r", "r", "a", "y", "(", "d", "e", "c", "i", "m", "a", "l", "(", "3", "8", ",", "9", ")", ")" >>,
      << "n", "u", "m", "e", "r", "i", "c", " ", "d", "e", "c", "i", "m", "a", "l", "(", "3", ",", " ", "1", ")", " ", "x" >>,
      << "d", "e", "c", "i", "m", "a", "l", "(", "3", "8", ")" >>,
      << "d", "e", "c", "i", "m", "a", "l", "(", ",", "9", ")" >>,
      << "d", "e", "c", "i", "m", "a", "l", "(", "3", "8", ",", ")" >>,
      << "d", "e", "c", "i", "m", "a", "l", "(", "a", ",", "b", ")" >>,
      << "d", "e", "c", "i", "m", "a", "l", " ", "(", "1", ",", "2", ")" >>,
      << "j", "s", "o", "n" >>,
      << "i", "n", "t", "e", "g", "e", "r" >>,
      << "I", "N", "T" >>,
      << "i", "n", "t", " " >>,
      << >>,
      << "v", "a", "r", "c", "h", "a", "r" >>,
      << "n", "u", "l", "l" >>,
      << "n", "u", "l", "l", "i", "n", "t" >>,
      << "i", "n", "t", " ", "n", "u", "l", "l" >> }

Descriptors ==
    TypeBases
        \cup {s_null_prefix \o b : b \in TypeBases}
        \cup {s_null_prefix \o s_null_prefix \o s_int}

(***************************************************************************)
(* types.rs: TypeConversion::convert_from_json                              *)
(***************************************************************************)
\* enum Type
Types ==
    { "Int", "Long", "Float", "Double", "Decimal", "Text", "Date", "Timestamp",
      "TimestampTZ", "Boolean", "Array", "Struct", "Geography", "Bytes" }

\* the types T that implement TypeConversion: eight families, each plain and as
\* Option<T>, and serde_json::Value
Families == {"i32", "BigInt", "f32", "f64", "Decimal", "String", "bool", "Vec<u8>"}

RawTarget == [family |-> "Value", option |-> FALSE]

Targets == {[family |-> f, option |-> o] : f \in Families, o \in BOOLEAN} \cup {RawTarget}

\* the one Type each impl matches on
ExpectedType(family) ==
    CASE family = "i32" -> "Int"
      [] family = "BigInt" -> "Long"
      [] family = "f32" -> "Float"
      [] family = "f64" -> "Double"
      [] family = "Decimal" -> "Decimal"
      [] family = "String" -> "Text"
      [] family = "bool" -> "Boolean"
      [] family = "Vec<u8>" -> "Bytes"

\* Result<T, FireboltError>, for every T: some is FALSE for Ok(None); i holds an
\* i32, b a bool, s a String, the bytes of a Vec<u8>, or the literal that stands
\* for a BigInt, a float or a Decimal; raw holds a serde_json::Value
NoValue ==
    [ ok |-> TRUE, some |-> FALSE, i |-> 0, b |-> FALSE, s |-> EmptyStr, raw |-> JNull,
      err |-> NoError ]

GotInt(n) == [NoValue EXCEPT !.some = TRUE, !.i = n]

GotBool(b) == [NoValue EXCEPT !.some = TRUE, !.b = b]

GotText(s) == [NoValue EXCEPT !.some = TRUE, !.s = s]

GotRaw(value) == [NoValue EXCEPT !.some = TRUE, !.raw = value]

GetErr(e) == [NoValue EXCEPT !.ok = FALSE, !.err = e]

ConvErr(msg) == GetErr(Err("Serialization", msg))

\* a run of decimal digits, not empty
IsDigits(s) == s # << >> /\ \A x \in 1..Len(s) : s[x] \in Digits

\* the text without its leading character when that is one of signs
Unsigned(s, signs) == IF s # << >> /\ s[1] \in signs THEN Tail(s) ELSE s

\* serde_json: a number literal made of a minus sign and digits only is an integer;
\* literals with leading zeros and "-0" are not among the inputs
IsIntegerLiteral(literal) == IsDigits(Unsigned(literal, {"-"}))

\* a <= b for two runs of digits of the same length
DigitsLeq(a, b) ==
    \/ a = b
    \/ \E x \in 1..Len(a) :
          /\ DigitVal(a[x]) < DigitVal(b[x])
          /\ \A y \in 1..(x - 1) : a[y] = b[y]

\* i64::MAX and the magnitude of i64::MIN
s_i64_max ==
    << "9", "2", "2", "3", "3", "7", "2", "0", "3", "6", "8", "5", "4", "7", "7", "5", "8",
       "0", "7" >>

s_i64_min == SubSeq(s_i64_max, 1, 18) \o << "8" >>

\* Value::as_i64: Some for an integer that lies in i64::MIN .. i64::MAX
AsI64(value) ==
    /\ value.t = "number"
    /\ IsIntegerLiteral(value.s)
    /\ \/ Len(Unsigned(value.s, {"-"})) < 19
       \/ /\ Len(Unsigned(value.s, {"-"})) = 19
          /\ DigitsLeq(Unsigned(value.s, {"-"}),
                       IF value.s[1] = "-" THEN s_i64_min ELSE s_i64_max)

\* the magnitude of i32::MIN
s_i32_min == << "2", "1", "4", "7", "4", "8", "3", "6", "4", "8" >>

\* I32TryFrom with a value out of range clamped to the nearest i32
I32Saturate(literal) ==
    IF literal[1] = "-"
    THEN IF DecimalValue(Tail(literal)) = -1
         THEN [ok |-> TRUE, v |-> -2147483647 - 1]
         ELSE [ok |-> TRUE, v |-> 0 - DecimalValue(Tail(literal))]
    ELSE IF DecimalValue(literal) = -1
         THEN [ok |-> TRUE, v |-> 2147483647]
         ELSE [ok |-> TRUE, v |-> DecimalValue(literal)]

\* i32::try_from of the i64 a literal spells: Ok when -2^31 <= v <= 2^31 - 1
I32TryFrom(literal) ==
    IF literal[1] = "-"
    THEN IF Tail(literal) = s_i32_min
         THEN [ok |-> TRUE, v |-> -2147483647 - 1]
         ELSE IF DecimalValue(Tail(literal)) = -1
         THEN [ok |-> FALSE, v |-> 0]
         ELSE [ok |-> TRUE, v |-> 0 - DecimalValue(Tail(literal))]
    ELSE IF DecimalValue(literal) = -1
         THEN [ok |-> FALSE, v |-> 0]
         ELSE [ok |-> TRUE, v |-> DecimalValue(literal)]

\* BigInt::from_str: a sign and digits
BigIntParses(s) == IsDigits(Unsigned(s, {"-", "+"}))

\* Decimal::from_str: a sign, digits and at most one point among them
DecimalParses(s) ==
    \/ IsDigits(Unsigned(s, {"-", "+"}))
    \/ \E x \in 1..Len(Unsigned(s, {"-", "+"})) :
          /\ Unsigned(s, {"-", "+"})[x] = "."
          /\ IsDigits(SubSeq(Unsigned(s, {"-", "+"}), 1, x - 1)
                      \o SubSeq(Unsigned(s, {"-", "+"}), x + 1, Len(Unsigned(s, {"-", "+"}))))

HexDigits == Digits \cup {"a", "b", "c", "d", "e", "f", "A", "B", "C", "D", "E", "F"}

\* the text starts with a backslash and an x
HasHexPrefix(s) == Len(s) >= 2 /\ s[1] = "\\" /\ s[2] = "x"

\* hex::decode: an even number of hex digits
HexDecodes(s) == Len(s) % 2 = 0 /\ \A x \in 1..Len(s) : s[x] \in HexDigits

\* types.rs 42-49, 101-113, 161-165, 209-213, 260-275, 330-334, 375-379, 421-436:
\* the conversion of a value that is not null, for a column of the expected type.
\* A BigInt, a float and a Decimal are returned as the literal they were made from;
\* bytes decoded from hex are returned as the hex digits
ConvertValue(family, value) ==
    CASE family = "i32" ->
            IF AsI64(value) /\ I32TryFrom(value.s).ok
            THEN GotInt(I32TryFrom(value.s).v)
            ELSE ConvErr(<< "Failed to convert to i32" >>)
      [] family = "BigInt" ->
            IF AsI64(value) THEN GotText(value.s)
            ELSE IF value.t = "string"
            THEN IF BigIntParses(value.s) THEN GotText(value.s)
                 ELSE ConvErr(<< "Failed to parse BigInt from string" >>)
            ELSE ConvErr(<< "Failed to convert to BigInt" >>)
      [] family \in {"f32", "f64"} ->
            IF value.t = "number" THEN GotText(value.s)
            ELSE ConvErr(<< "Failed to convert to ", family >>)
      [] family = "Decimal" ->
            IF value.t = "string"
            THEN IF DecimalParses(value.s) THEN GotText(value.s)
                 ELSE ConvErr(<< "Failed to parse Decimal from string" >>)
            ELSE IF value.t = "number" THEN GotText(value.s)
            ELSE ConvErr(<< "Failed to convert to Decimal" >>)
      [] family = "String" ->
            IF value.t = "string" THEN GotText(value.s)
            ELSE ConvErr(<< "Failed to convert to String" >>)
      [] family = "bool" ->
            IF value.t = "bool" THEN GotBool(value.b)
            ELSE ConvErr(<< "Failed to convert to bool" >>)
      [] family = "Vec<u8>" ->
            IF value.t # "string" THEN ConvErr(<< "Failed to convert to Vec<u8>" >>)
            ELSE IF ~HasHexPrefix(value.s) THEN GotText(value.s)
            ELSE IF HexDecodes(SubSeq(value.s, 3, Len(value.s)))
            THEN GotText(SubSeq(value.s, 3, Len(value.s)))
            ELSE ConvErr(<< "Failed to decode hex string" >>)

\* the name of the target in the messages
TargetName(target) ==
    IF target.option THEN << "Option<", target.family, ">" >> ELSE << target.family >>

\* ConvertFromJson with the declared type of the column ignored
ConvertFromJsonAnyType(target, value, column_type) ==
    IF target.family = "Value" THEN GotRaw(value)
    ELSE IF value.t = "null"
    THEN IF target.option THEN NoValue
         ELSE ConvErr(<< "Cannot convert null to non-nullable type" >>)
    ELSE ConvertValue(target.family, value)

\* ConvertFromJson with null turned into no value for the plain targets too
ConvertFromJsonNullAsNone(target, value, column_type) ==
    IF target.family = "Value" THEN GotRaw(value)
    ELSE IF value.t = "null" THEN NoValue
    ELSE IF column_type # ExpectedType(target.family)
    THEN ConvErr(<< "Cannot convert ", column_type, " to " >> \o TargetName(target))
    ELSE ConvertValue(target.family, value)

\* types.rs 30-486: T::convert_from_json(value, column_type).  An Option<T> looks at
\* null before the type of the column, a plain T after it; Value returns the value
ConvertFromJson(target, value, column_type) ==
    IF target.family = "Value" THEN GotRaw(value)
    ELSE IF target.option /\ value.t = "null" THEN NoValue
    ELSE IF column_type # ExpectedType(target.family)
    THEN ConvErr(<< "Cannot convert ", column_type, " to " >> \o TargetName(target))
    ELSE IF value.t = "null"
    THEN ConvErr(<< "Cannot convert null to non-nullable type" >>)
    ELSE ConvertValue(target.family, value)

(***************************************************************************)
(* result.rs: Row::get                                                      *)
(***************************************************************************)
\* enum ColumnRef; the index counts from 0
ByIndex(i) == [by |-> "index", index |-> i, name |-> EmptyStr]

ByName(name) == [by |-> "name", index |-> 0, name |-> name]

\* result.rs 35-39: the positions, from 0, of the columns that have the name
Named(columns, name) == {x \in 0..(Len(columns) - 1) : columns[x + 1].name = name}

\* result.rs 35-39: iter().enumerate().find(): the first match
FindColumn(columns, name) ==
    IF Named(columns, name) = {}
    THEN [some |-> FALSE, index |-> 0]
    ELSE [ some |-> TRUE,
           index |-> CHOOSE x \in Named(columns, name) : \A y \in Named(columns, name) : x <= y ]

\* result.rs 27-43: the column the reference resolves to
Resolve(columns, column_ref) ==
    IF column_ref.by = "index"
    THEN IF column_ref.index < Len(columns)
         THEN [ok |-> TRUE, index |-> column_ref.index, err |-> NoError]
         ELSE [ ok |-> FALSE, index |-> 0,
                err |-> Err("Query", << "Column index ", column_ref.index, " out of bounds" >>) ]
    ELSE IF FindColumn(columns, column_ref.name).some
         THEN [ok |-> TRUE, index |-> FindColumn(columns, column_ref.name).index, err |-> NoError]
         ELSE [ ok |-> FALSE, index |-> 0,
                err |-> Err("Query", << "Column '", column_ref.name, "' not found" >>) ]

\* result.rs 22-51: Row::get::<T>(column_ref)
RowGet(row, column_ref, target) ==
    IF ~Resolve(row.columns, column_ref).ok
    THEN GetErr(Resolve(row.columns, column_ref).err)
    ELSE IF Resolve(row.columns, column_ref).index >= Len(row.data)
    THEN GetErr(Err("Query", << "Column index ", Resolve(row.columns, column_ref).index,
                                " out of bounds" >>))
    ELSE ConvertFromJson(target, row.data[Resolve(row.columns, column_ref).index + 1],
                         row.columns[Resolve(row.columns, column_ref).index + 1].type)

(***************************************************************************)
(* The rows, column references and raw values Row::get is called with       *)
(***************************************************************************)
Col(name, type) ==
    [name |-> name, type |-> type, precision |-> None, scale |-> None, is_nullable |-> FALSE]

\* raw values: null, integers in and around the ranges of i32 and i64, numbers that
\* are no integers, strings, booleans, an array and an object
RawValues ==
    { JNull, JBool(TRUE), JBool(FALSE),
      JNum(<< "0" >>), JNum(<< "7" >>), JNum(<< "-", "1" >>),
      JNum(<< "2", "1", "4", "7", "4", "8", "3", "6", "4", "7" >>),
      JNum(s_i32_min),
      JNum(<< "-" >> \o s_i32_min),
      JNum(<< "-", "2", "1", "4", "7", "4", "8", "3", "6", "4", "9" >>),
      JNum(<< "4", "2", "9", "4", "9", "6", "7", "2", "9", "6" >>),
      JNum(s_i64_max), JNum(s_i64_min), JNum(<< "-" >> \o s_i64_min),
      JNum(<< "1", ".", "5" >>), JNum(<< "1", ".", "0" >>), JNum(<< "1", "e", "2" >>),
      JStr(<< "7" >>), JStr(<< "+", "7" >>), JStr(<< "1", ".", "5" >>), JStr(<< "a", "b" >>),
      JStr(EmptyStr), JStr(<< "\\", "x", "0", "a" >>), JStr(<< "\\", "x", "0" >>),
      JArr(<< JNum(<< "7" >>) >>), JObj("k" :> JNum(<< "7" >>)) }

\* a column named a of type Int, one named b of type Text, and a second one named a
ThreeColumns ==
    << Col(<< "a" >>, "Int"), Col(<< "b" >>, "Text"), Col(<< "a" >>, "Boolean") >>

\* rows of one column, of every type and with every raw value, and rows of
\* ThreeColumns that hold three values, fewer and more (parse_data and Row::new take
\* any number of values)
GetRows ==
    {[data |-> << v >>, columns |-> << Col(<< "a" >>, ty) >>] : v \in RawValues, ty \in Types}
    \cup {[data |-> d, columns |-> ThreeColumns] :
              d \in { << JNum(<< "7" >>), JStr(<< "a", "b" >>), JBool(TRUE) >>,
                      << JNull, JNull, JNull >>,
                      << JNum(<< "7" >>), JStr(<< "a", "b" >>) >>,
                      << >>,
                      << JNum(<< "7" >>), JStr(<< "a", "b" >>), JBool(TRUE), JNum(<< "0" >>) >> }}
    \cup {[data |-> << >>, columns |-> << >>]}

ColumnRefs ==
    { ByIndex(0), ByIndex(1), ByIndex(2), ByIndex(3),
      ByName(<< "a" >>), ByName(<< "b" >>), ByName(<< "A" >>), ByName(EmptyStr) }

(***************************************************************************)
(* client.rs: FireboltClientFactory                                         *)
(***************************************************************************)
\* Option<String>
NoneStr == [some |-> FALSE, v |-> ""]

SomeStr(v) == [some |-> TRUE, v |-> v]

\* client.rs 226-235: FireboltClientFactory::new
NewFactory ==
    [ client_id |-> NoneStr, client_secret |-> NoneStr, database_name |-> NoneStr,
      engine_name |-> NoneStr, account_name |-> NoneStr ]

\* Result<FireboltClient, FireboltError>; the client itself is the session
BuildOk == [ok |-> TRUE, err |-> NoError]

BuildErr(e) == [ok |-> FALSE, err |-> e]

\* Validate with account_name looked at first
ValidateAccountFirst(f) ==
    IF ~f.account_name.some
    THEN Err("Configuration", << "account_name is required" >>)
    ELSE IF ~f.client_id.some
    THEN Err("Configuration", << "client_id is required" >>)
    ELSE IF ~f.client_secret.some
    THEN Err("Configuration", << "client_secret is required" >>)
    ELSE NoError

\* client.rs 325-333: the required parameters, in the order build looks at them
Validate(f) ==
    IF ~f.client_id.some
    THEN Err("Configuration", << "client_id is required" >>)
    ELSE IF ~f.client_secret.some
    THEN Err("Configuration", << "client_secret is required" >>)
    ELSE IF ~f.account_name.some
    THEN Err("Configuration", << "account_name is required" >>)
    ELSE NoError

\* "api.app.firebolt.io"
s_default_api ==
    << "a", "p", "i", ".", "a", "p", "p", ".", "f", "i", "r", "e", "b", "o", "l", "t", ".",
       "i", "o" >>

\* client.rs 245-250: get_api_endpoint; env is FIREBOLT_API_ENDPOINT
GetApiEndpoint(env) == FixSchema(IF env.some THEN env.v ELSE s_default_api)

\* client.rs 252-299: get_engine_url, given the answer to the GET
GetEngineUrl(account_name, resp) ==
    IF ~resp.arrived
    THEN [ok |-> FALSE, url |-> EmptyStr, err |-> Err("Network", << "Failed to get engine URL" >>)]
    ELSE IF resp.status = 200
    THEN IF ~resp.body.readable
         THEN [ok |-> FALSE, url |-> EmptyStr, err |-> Err("Network", << "Failed to read response" >>)]
         ELSE IF ~resp.body.json.ok
         THEN [ ok |-> FALSE, url |-> EmptyStr,
                err |-> Err("Query", << "Failed to parse engine URL response" >>) ]
         ELSE IF ~JGetStr(resp.body.json.value, "engineUrl").some
         THEN [ ok |-> FALSE, url |-> EmptyStr,
                err |-> Err("Query", << "Missing engineUrl field in response" >>) ]
         ELSE [ ok |-> TRUE,
                url |-> FixSchema(ensure_trailing_slash(
                            JGetStr(resp.body.json.value, "engineUrl").v)),
                err |-> NoError ]
    ELSE IF resp.status = 404
    THEN [ ok |-> FALSE, url |-> EmptyStr,
           err |-> Err("Configuration", << "Account '", account_name, "' not found" >>) ]
    ELSE IF ~resp.body.readable
    THEN [ ok |-> FALSE, url |-> EmptyStr,
           err |-> Err("Network", << "Failed to read error response" >>) ]
    ELSE [ok |-> FALSE, url |-> EmptyStr, err |-> Err("Query", << resp.body.text >>)]

\* the answers to the GET of the engine URL
EngineUrlBody(v) ==
    [readable |-> TRUE, text |-> "{\"engineUrl\": ..}", json |-> Json(JObj("engineUrl" :> v))]

EngineUrlResponses ==
    { [arrived |-> FALSE, status |-> 0, body |-> UnreadableBody],
      [arrived |-> TRUE, status |-> 200, body |-> EngineUrlBody(JStr(<< "e", "1" >>))],
      [arrived |-> TRUE, status |-> 200, body |-> EngineUrlBody(JStr(s_https \o << "e", "1", "/" >>))],
      [arrived |-> TRUE, status |-> 200, body |-> EngineUrlBody(JNum(<< "1" >>))],
      [arrived |-> TRUE, status |-> 200, body |-> ErrorTextBody],
      [arrived |-> TRUE, status |-> 200, body |-> UnreadableBody],
      [arrived |-> TRUE, status |-> 404, body |-> ErrorTextBody],
      [arrived |-> TRUE, status |-> 500, body |-> ErrorTextBody],
      [arrived |-> TRUE, status |-> 500, body |-> UnreadableBody] }

\* the values of FIREBOLT_API_ENDPOINT: not set, or "api.test.firebolt.io"
EnvValues ==
    { [some |-> FALSE, v |-> EmptyStr],
      [ some |-> TRUE,
        v |-> << "a", "p", "i", ".", "t", "e", "s", "t", ".", "f", "i", "r", "e", "b", "o",
                 "l", "t", ".", "i", "o" >> ] }

\* client.rs 353-369: what build does next once the client, or a USE query, is done
StageAfter(stage, f) ==
    IF stage = "engine_url" /\ f.database_name.some THEN "use_database"
    ELSE IF stage \in {"engine_url", "use_database"} /\ f.engine_name.some THEN "use_engine"
    ELSE "done"

\* client.rs 354 and 364: the SQL of the USE queries
UseSql(stage, f) ==
    IF stage = "use_database"
    THEN << "USE DATABASE \"", f.database_name.v, "\"" >>
    ELSE << "USE ENGINE \"", f.engine_name.v, "\"" >>

\* client.rs 356-358 and 365-368: the error of a USE query that failed
UseError(stage, e) ==
    IF stage = "use_database"
    THEN Err("Configuration", << "Failed to set database: ", e >>)
    ELSE Err("Configuration", << "Failed to set engine: ", e >>)

(***************************************************************************)
(* The state: the session (struct FireboltClient), the frame of the query   *)
(* call in progress, the network, and the record of the call.               *)
(***************************************************************************)
VARIABLES
    client_id,       \* FireboltClient._client_id
    client_secret,   \* FireboltClient._client_secret
    api_endpoint,    \* FireboltClient._api_endpoint
    token,           \* FireboltClient._token
    parameters,      \* FireboltClient._parameters
    engine_url,      \* FireboltClient._engine_url
    pc,              \* where the query call is: idle, awaiting, received,
                     \* authenticating, done
    url,             \* execute_query_request's url
    sql,             \* execute_query_request's sql
    params,          \* execute_query_request's params
    should_retry,    \* execute_query_request's should_retry
    response,        \* the response of the current attempt (NoResponse: none yet)
    result,          \* what the call returns
    requests,        \* the HTTP requests the call has sent, in order
    handled,         \* the statuses of the responses the call has classified
    auth_calls,      \* the calls of the Authenticator made by the call
    auth_outcome,    \* what the Authenticator returned
    pre,             \* token, parameters and engine_url when query was called
    queries,         \* the query calls made so far
    type_str,        \* parse_type's type_str: a wire type descriptor
    type_out,        \* what parse_type returned for type_str
    columns_out,     \* what parse_columns returned for a meta that holds type_str
    body_in,         \* parse_response's body
    body_out,        \* what parse_response returned for body_in
    row,             \* the Row that get is called on
    column_ref,      \* Row::get's column_ref
    target,          \* the type T of Row::get::<T>
    get_out,         \* what Row::get returned
    factory,         \* the FireboltClientFactory that build is called on
    build_pc,        \* where build is: new (not called), authenticating, engine_url,
                     \* use_database, use_engine, done
    build_locals,    \* build's api_endpoint and token
    build_calls,     \* the calls build has made to the Authenticator and the account API
    build_out,       \* what build returned
    peers,           \* two sessions, each with the frame of its query call
    heard            \* the events each of the two sessions has been given

vars ==
    << client_id, client_secret, api_endpoint, token, parameters, engine_url, pc, url, sql,
       params, should_retry, response, result, requests, handled, auth_calls, auth_outcome,
       pre, queries, type_str, type_out, columns_out, body_in, body_out, row, column_ref,
       target, get_out, factory, build_pc, build_locals, build_calls, build_out, peers,
       heard >>

session == << client_id, client_secret, api_endpoint, token, parameters, engine_url >>

\* Row::get called on its own
getter == << row, column_ref, target, get_out >>

\* two sessions side by side
pair == << peers, heard >>

\* FireboltClientFactory and its build
builder == << factory, build_pc, build_locals, build_calls, build_out >>

\* what a query call does not touch
apart == << getter, builder, pair >>

\* the frame and the record of the query call
frame ==
    << pc, url, sql, params, should_retry, response, result, requests, handled, auth_calls,
       auth_outcome, pre, queries >>

\* the decoder called on its own
decoder == << type_str, type_out, columns_out, body_in, body_out, apart >>

\* the session, the query call and the arguments and results of the decoder
machine ==
    << session, pc, url, sql, params, should_retry, response, result, requests, handled,
       auth_calls, auth_outcome, pre, queries, type_str, type_out, columns_out, body_in,
       body_out >>

\* "https://e1/": get_engine_url returns the URL with its trailing slash
s_engine1 == << "h", "t", "t", "p", "s", ":", "/", "/", "e", "1", "/" >>

\* the parameters a session starts a query with
InitParameters ==
    { EmptyMap,
      (s_database :> << "d" >>) @@ (s_engine :> << "e" >>) @@ (<< "k" >> :> << "x" >>),
      (s_engine :> << "e" >>) @@ (<< "m" >> :> << "y" >>) }

Sqls == {"SELECT 1"}

\* the tokens the Authenticator hands out; "t0" is the token of the session at start
AuthTokens == {"t0", "t1"}

\* the messages the Authenticator fails with
AuthErrors == {"invalid_client"}

NoAuth == [called |-> FALSE, ok |-> FALSE, token |-> "", msg |-> ""]

NoPre == [token |-> "", parameters |-> EmptyMap, engine_url |-> EmptyStr]

\* the client as create_test_client and build leave it, no call in progress
ClientInit ==
    /\ client_id = "test_id"
    /\ client_secret = "test_secret"
    /\ api_endpoint = "https://api.app.firebolt.io"
    /\ token = "t0"
    /\ parameters \in InitParameters
    /\ engine_url = s_engine1
    /\ pc = "idle"
    /\ url = EmptyStr
    /\ sql = ""
    /\ params = EmptyMap
    /\ should_retry = TRUE
    /\ response = NoResponse
    /\ result = Pending
    /\ requests = << >>
    /\ handled = << >>
    /\ auth_calls = 0
    /\ auth_outcome = NoAuth
    /\ pre = NoPre
    /\ queries = 0

\* no descriptor and no body is being decoded
DecoderIdle ==
    /\ type_str = EmptyStr
    /\ type_out = TypeErr(Pending.err)
    /\ columns_out = ColumnsErr(Pending.err)
    /\ body_in = GoodBody
    /\ body_out = Pending

\* get is not being called
GetterIdle ==
    /\ row = [data |-> << >>, columns |-> << >>]
    /\ column_ref = ByIndex(0)
    /\ target = RawTarget
    /\ get_out = GetErr(Pending.err)

Sessions == {1, 2}

\* a session and the frame of its query call
PeerStarts ==
    (1 :> [ token |-> "t0", parameters |-> EmptyMap, engine_url |-> s_engine1,
            pc |-> "idle", url |-> EmptyStr, sql |-> "", params |-> EmptyMap,
            should_retry |-> TRUE, requests |-> << >>, result |-> Pending, queries |-> 0 ])
    @@ (2 :> [ token |-> "u0",
               parameters |-> (s_database :> << "d" >>) @@ (<< "k" >> :> << "x" >>),
               engine_url |-> << "h", "t", "t", "p", "s", ":", "/", "/", "e", "2" >>,
               pc |-> "idle", url |-> EmptyStr, sql |-> "", params |-> EmptyMap,
               should_retry |-> TRUE, requests |-> << >>, result |-> Pending, queries |-> 0 ])

\* two sessions, no call made on either
PairIdle ==
    /\ peers = PeerStarts
    /\ heard = [i \in Sessions |-> << >>]

\* no factory is in use: the client was made by create_test_client
BuilderIdle ==
    /\ factory = NewFactory
    /\ build_pc = "done"
    /\ build_locals = [api_endpoint |-> EmptyStr, token |-> ""]
    /\ build_calls = << >>
    /\ build_out = BuildOk

Init ==
    /\ ClientInit
    /\ type_str = EmptyStr
    /\ type_out = TypeErr(Pending.err)
    /\ columns_out = ColumnsErr(Pending.err)
    /\ body_in = GoodBody
    /\ body_out = Pending
    /\ GetterIdle
    /\ BuilderIdle
    /\ PairIdle

\* the decoder is about to be called on a descriptor and on a body
DecoderInit ==
    /\ ClientInit
    /\ type_str \in Descriptors
    /\ type_out = TypeErr(Pending.err)
    /\ columns_out = ColumnsErr(Pending.err)
    /\ body_in \in DecodeBodies
    /\ body_out = Pending
    /\ GetterIdle
    /\ BuilderIdle
    /\ PairIdle

\* get is about to be called on a row, with a column reference and a target
GetInit ==
    /\ ClientInit
    /\ parameters = EmptyMap
    /\ DecoderIdle
    /\ row \in GetRows
    /\ column_ref \in ColumnRefs
    /\ target \in Targets
    /\ get_out = GetErr(Pending.err)
    /\ BuilderIdle
    /\ PairIdle

\* the values the builder is given
FactoryIds == {"test_id"}

FactorySecrets == {"test_secret"}

FactoryNames == {"test_account", "nonexistent"}

\* a factory as builder() or a struct literal makes it, build not called; there is
\* no client yet
FactoryInit ==
    /\ factory \in [ client_id : {NoneStr} \cup {SomeStr(x) : x \in FactoryIds},
                     client_secret : {NoneStr} \cup {SomeStr(x) : x \in FactorySecrets},
                     database_name : {NoneStr, SomeStr("db")},
                     engine_name : {NoneStr, SomeStr("eng")},
                     account_name : {NoneStr} \cup {SomeStr(x) : x \in FactoryNames} ]
    /\ build_pc = "new"
    /\ build_locals = [api_endpoint |-> EmptyStr, token |-> ""]
    /\ build_calls = << >>
    /\ build_out = BuildErr(Pending.err)
    /\ client_id = ""
    /\ client_secret = ""
    /\ api_endpoint = EmptyStr
    /\ token = ""
    /\ parameters = EmptyMap
    /\ engine_url = EmptyStr
    /\ pc = "idle"
    /\ url = EmptyStr
    /\ sql = ""
    /\ params = EmptyMap
    /\ should_retry = TRUE
    /\ response = NoResponse
    /\ result = Pending
    /\ requests = << >>
    /\ handled = << >>
    /\ auth_calls = 0
    /\ auth_outcome = NoAuth
    /\ pre = NoPre
    /\ queries = 0
    /\ DecoderIdle
    /\ GetterIdle
    /\ PairIdle

(***************************************************************************)
(* execute_query_request                                                    *)
(***************************************************************************)
\* client.rs 42-52: the request of one attempt
BuildRequest(u, s, p, tok) ==
    [ method |-> "POST", url |-> u, query |-> p, body |-> s,
      authorization |-> << "Bearer ", tok >>,
      user_agent |-> "Rust SDK",
      protocol_version |-> "2.4" ]

\* StatusCode::is_success
IsSuccess(status) == 200 <= status /\ status <= 299

\* StatusCode::is_server_error
IsServerError(status) == 500 <= status /\ status <= 599

\* Branch with the retry flag ignored: every 401 refreshes the token
BranchEvery401(status, retry) ==
    IF status = 401 THEN "refresh"
    ELSE IF IsServerError(status) THEN "server_error"
    ELSE IF IsSuccess(status) THEN "success"
    ELSE "other"

\* client.rs 58-90: the branch taken for a status
Branch(status, retry) ==
    IF status = 401 /\ retry THEN "refresh"
    ELSE IF status = 401 THEN "auth_failed"
    ELSE IF IsServerError(status) THEN "server_error"
    ELSE IF IsSuccess(status) THEN "success"
    ELSE "other"

\* AppliesHeaders with the headers processed whatever the status
AppliesHeadersAlways(branch) == TRUE

\* AppliesHeaders with the headers never processed
AppliesHeadersNever(branch) == FALSE

\* client.rs 78-79: process_response_headers is called in the success branch only
AppliesHeaders(branch) == branch = "success"

\* RetryFlag with the retry allowed to retry again
RetryFlagTrue == TRUE

\* client.rs 68: the retry runs with should_retry = false
RetryFlag == FALSE

\* SetToken with the new token dropped
SetTokenKeepsOld(old, new) == old

\* client.rs 113-115: set_token
SetToken(old, new) == new

\* RefreshError with the Authenticator's message lost
RefreshErrorNoMessage(e) == Err("Authentication", << "Token refresh failed" >>)

\* client.rs 65: the error of a failed token refresh
RefreshError(e) == Err("Authentication", << "Token refresh failed: ", e >>)

\* client.rs 69-90: what the call returns in a branch that ends it; hp is what
\* process_response_headers left
Outcome(branch, hp, resp) ==
    CASE branch = "auth_failed" ->
            Fail(Err("Authentication", << "Authentication failed after token refresh" >>))
      [] branch \in {"server_error", "other"} ->
            IF ~resp.body.readable
            THEN Fail(Err("Network", << "Failed to read error response" >>))
            ELSE Fail(parse_server_error(resp.body.text))
      [] branch = "success" ->
            IF hp.err # NoError
            THEN Fail(hp.err)
            ELSE IF ~resp.body.readable
            THEN Fail(Err("Network", << "Failed to read response" >>))
            ELSE ParseResponse(resp.body)

(***************************************************************************)
(* Two FireboltClient values, each with the query call that holds it as     *)
(* &mut self.  A call runs from one await to the next in one step.          *)
(***************************************************************************)
\* what a call gets from outside: the SQL of the caller, the answer to a request
\* (or its failure), the answer of the Authenticator
CallEvent(kind) == [kind |-> kind, sql |-> "", resp |-> NoResponse, token |-> "", msg |-> ""]

PeerResponse(status, body, he, hp) ==
    [ status |-> status, body |-> body,
      sent |-> [ update_endpoint |-> he, update_parameters |-> hp,
                 reset_session |-> AbsentHeader, remove_parameters |-> AbsentHeader ] ]

PeerEvents ==
    {[CallEvent("query") EXCEPT !.sql = s] : s \in Sqls}
    \cup {[CallEvent("response") EXCEPT !.resp = r] :
             r \in { PeerResponse(200, GoodBody, AbsentHeader, AbsentHeader),
                     PeerResponse(200, GoodBody, EndpointHeader(Url3), PairsHeader(Pairs4, "plain")),
                     PeerResponse(401, ErrorTextBody, AbsentHeader, AbsentHeader),
                     PeerResponse(500, ErrorTextBody, AbsentHeader, AbsentHeader) }}
    \cup {CallEvent("network_failure")}
    \cup {[CallEvent("token") EXCEPT !.token = "t1"]}
    \cup {[CallEvent("auth_error") EXCEPT !.msg = e] : e \in AuthErrors}

\* the event is one the call of the session is waiting for
Awaited(p, ev) ==
    \/ ev.kind = "query" /\ p.pc = "idle" /\ p.queries < MaxPeerQueries
    \/ ev.kind \in {"response", "network_failure"} /\ p.pc = "awaiting"
    \/ ev.kind \in {"token", "auth_error"} /\ p.pc = "authenticating"

\* client.rs 78-79: what process_response_headers leaves, in the success branch
PeerHeaders(p, resp) ==
    IF AppliesHeaders(Branch(resp.status, p.should_retry))
    THEN ProcessResponseHeaders(p.parameters, p.engine_url, HeadersOf(resp))
    ELSE [parameters |-> p.parameters, engine_url |-> p.engine_url, err |-> NoError]

\* client.rs 22-91: the call of a session runs to its next await, or returns
PeerStep(p, ev) ==
    CASE ev.kind = "query" ->
            [ p EXCEPT
                !.url = ensure_trailing_slash(p.engine_url),
                !.params = MapInsert(p.parameters, s_output_format, s_JSON_Compact),
                !.sql = ev.sql,
                !.should_retry = TRUE,
                !.requests = << BuildRequest(ensure_trailing_slash(p.engine_url), ev.sql,
                                             MapInsert(p.parameters, s_output_format,
                                                       s_JSON_Compact),
                                             p.token) >>,
                !.result = Pending,
                !.queries = p.queries + 1,
                !.pc = "awaiting" ]
      [] ev.kind = "network_failure" ->
            [p EXCEPT !.result = Fail(Err("Network", << "Request failed" >>)), !.pc = "idle"]
      [] ev.kind = "response" ->
            IF Branch(ev.resp.status, p.should_retry) = "refresh"
            THEN [p EXCEPT !.pc = "authenticating"]
            ELSE [ p EXCEPT
                     !.parameters = PeerHeaders(p, ev.resp).parameters,
                     !.engine_url = PeerHeaders(p, ev.resp).engine_url,
                     !.result = Outcome(Branch(ev.resp.status, p.should_retry),
                                        PeerHeaders(p, ev.resp), ev.resp),
                     !.pc = "idle" ]
      [] ev.kind = "token" ->
            [ p EXCEPT
                !.token = SetToken(p.token, ev.token),
                !.should_retry = RetryFlag,
                !.requests = Append(p.requests,
                                    BuildRequest(p.url, p.sql, p.params,
                                                 SetToken(p.token, ev.token))),
                !.pc = "awaiting" ]
      [] ev.kind = "auth_error" ->
            [p EXCEPT !.result = Fail(RefreshError(ev.msg)), !.pc = "idle"]

\* Holder with every call working on the first session
HolderShared(i) == 1

\* client.rs 22 and 32-33: query and execute_query_request take &mut self: the call
\* of session i works on session i
Holder(i) == i

\* a session on its own, given the events of its calls one after the other
RECURSIVE Alone(_, _)
Alone(p, events) ==
    IF events = << >> THEN p ELSE Alone(PeerStep(p, Head(events)), Tail(events))

(***************************************************************************)
(* Actions                                                                  *)
(***************************************************************************)
\* client.rs 22-30 and 39-53: query fixes url and params and sends the first attempt
Query(s) ==
    /\ pc = "idle"
    /\ UNCHANGED decoder
    /\ queries < MaxQueries
    /\ queries' = queries + 1
    /\ url' = ensure_trailing_slash(engine_url)
    /\ params' = MapInsert(parameters, s_output_format, s_JSON_Compact)
    /\ sql' = s
    /\ should_retry' = TRUE
    /\ requests' = << BuildRequest(url', sql', params', token) >>
    /\ pre' = [token |-> token, parameters |-> parameters, engine_url |-> engine_url]
    /\ response' = NoResponse
    /\ result' = Pending
    /\ handled' = << >>
    /\ auth_calls' = 0
    /\ auth_outcome' = NoAuth
    /\ pc' = "awaiting"
    /\ UNCHANGED session

\* client.rs 52-54: send() fails
NetworkFailure ==
    /\ pc = "awaiting"
    /\ UNCHANGED decoder
    /\ result' = Fail(Err("Network", << "Request failed" >>))
    /\ pc' = "done"
    /\ UNCHANGED << session, url, sql, params, should_retry, response, requests, handled,
                    auth_calls, auth_outcome, pre, queries >>

\* the server answers the request in flight
ServerResponds ==
    /\ pc = "awaiting"
    /\ UNCHANGED decoder
    /\ \E st \in Statuses, b \in Bodies, he \in EndpointHeaders, hp \in ParametersHeaders,
          hr \in ResetHeaders, hd \in RemoveHeaders :
          response' = [ status |-> st, body |-> b,
                        sent |-> [ update_endpoint |-> he, update_parameters |-> hp,
                                   reset_session |-> hr, remove_parameters |-> hd ] ]
    /\ pc' = "received"
    /\ UNCHANGED << session, url, sql, params, should_retry, result, requests, handled,
                    auth_calls, auth_outcome, pre, queries >>

\* the server answers 200 with a result and any of the headers the model knows
ServerRespondsHeaders ==
    /\ pc = "awaiting"
    /\ UNCHANGED decoder
    /\ \E he \in AllEndpointHeaders, hp \in AllParametersHeaders,
          hr \in AllResetHeaders, hd \in AllRemoveHeaders :
          response' = [ status |-> 200, body |-> GoodBody,
                        sent |-> [ update_endpoint |-> he, update_parameters |-> hp,
                                   reset_session |-> hr, remove_parameters |-> hd ] ]
    /\ pc' = "received"
    /\ UNCHANGED << session, url, sql, params, should_retry, result, requests, handled,
                    auth_calls, auth_outcome, pre, queries >>

\* the server answers 200 or 401, with a result or with a body that cannot be decoded;
\* a 200 may move the session to another endpoint and set output_format and k
ServerRespondsSession ==
    /\ pc = "awaiting"
    /\ UNCHANGED decoder
    /\ \E st \in {200, 401},
          he \in {AbsentHeader, EndpointHeader(Url1), EndpointHeader(Url3)},
          hp \in {AbsentHeader, PairsHeader(Pairs4, "plain")},
          b \in {GoodBody} \cup UndecodableBodies :
          response' = [ status |-> st, body |-> b,
                        sent |-> [ update_endpoint |-> he, update_parameters |-> hp,
                                   reset_session |-> AbsentHeader,
                                   remove_parameters |-> AbsentHeader ] ]
    /\ pc' = "received"
    /\ UNCHANGED << session, url, sql, params, should_retry, result, requests, handled,
                    auth_calls, auth_outcome, pre, queries >>

\* client.rs 56-90: the status is classified and the branch taken, up to the next await
HandleResponse ==
    /\ pc = "received"
    /\ UNCHANGED decoder
    /\ LET branch == Branch(response.status, should_retry)
           hp     == IF AppliesHeaders(branch)
                     THEN ProcessResponseHeaders(parameters, engine_url, HeadersOf(response))
                     ELSE [parameters |-> parameters, engine_url |-> engine_url, err |-> NoError]
       IN  /\ parameters' = hp.parameters
           /\ engine_url' = hp.engine_url
           /\ handled' = Append(handled, response.status)
           /\ IF branch = "refresh"
              THEN /\ pc' = "authenticating"
                   /\ auth_calls' = auth_calls + 1
                   /\ result' = result
              ELSE /\ pc' = "done"
                   /\ auth_calls' = auth_calls
                   /\ result' = Outcome(branch, hp, response)
    /\ UNCHANGED << client_id, client_secret, api_endpoint, token, url, sql, params,
                    should_retry, response, requests, auth_outcome, pre, queries >>

\* client.rs 59-68: the Authenticator returns a token; set_token, then the retry is sent
AuthSucceeds(new_token) ==
    /\ pc = "authenticating"
    /\ UNCHANGED decoder
    /\ auth_outcome' = [called |-> TRUE, ok |-> TRUE, token |-> new_token, msg |-> ""]
    /\ token' = SetToken(token, new_token)
    /\ should_retry' = RetryFlag
    /\ requests' = Append(requests, BuildRequest(url, sql, params, token'))
    /\ response' = NoResponse
    /\ pc' = "awaiting"
    /\ UNCHANGED << client_id, client_secret, api_endpoint, parameters, engine_url, url, sql,
                    params, result, handled, auth_calls, pre, queries >>

\* client.rs 59-65: the Authenticator fails
AuthFails(e) ==
    /\ pc = "authenticating"
    /\ UNCHANGED decoder
    /\ auth_outcome' = [called |-> TRUE, ok |-> FALSE, token |-> "", msg |-> e]
    /\ result' = Fail(RefreshError(e))
    /\ pc' = "done"
    /\ UNCHANGED << session, url, sql, params, should_retry, response, requests, handled,
                    auth_calls, pre, queries >>

\* the call returns to its caller; the frame and the record of the call are dropped
Return ==
    /\ pc = "done"
    /\ UNCHANGED decoder
    /\ pc' = "idle"
    /\ url' = EmptyStr
    /\ sql' = ""
    /\ params' = EmptyMap
    /\ should_retry' = TRUE
    /\ response' = NoResponse
    /\ result' = Pending
    /\ requests' = << >>
    /\ handled' = << >>
    /\ auth_calls' = 0
    /\ auth_outcome' = NoAuth
    /\ pre' = NoPre
    /\ UNCHANGED << session, queries >>

\* parser.rs 6-52: parse_type is called on the descriptor
ParseTypeCall ==
    /\ type_out = TypeErr(Pending.err)
    /\ type_out' = ParseType(type_str)
    /\ UNCHANGED apart
    /\ UNCHANGED << session, pc, url, sql, params, should_retry, response, result, requests,
                    handled, auth_calls, auth_outcome, pre, queries, type_str, columns_out,
                    body_in, body_out >>

\* parser.rs 54-83: parse_columns is called on a document whose meta holds a column
\* of type int and a column of the type the descriptor spells
ParseColumnsCall ==
    /\ columns_out = ColumnsErr(Pending.err)
    /\ columns_out' = ParseColumns(JObj("meta" :> JArr(<< MetaEntry(s_test, s_int),
                                                          MetaEntry(<< "c" >>, type_str) >>)))
    /\ UNCHANGED apart
    /\ UNCHANGED << session, pc, url, sql, params, should_retry, response, result, requests,
                    handled, auth_calls, auth_outcome, pre, queries, type_str, type_out,
                    body_in, body_out >>

\* parser.rs 105-113: parse_response is called on the body
ParseResponseCall ==
    /\ body_out = Pending
    /\ body_out' = ParseResponse(body_in)
    /\ UNCHANGED apart
    /\ UNCHANGED << session, pc, url, sql, params, should_retry, response, result, requests,
                    handled, auth_calls, auth_outcome, pre, queries, type_str, type_out,
                    columns_out, body_in >>

\* result.rs 22-51: get is called on the row
RowGetCall ==
    /\ get_out = GetErr(Pending.err)
    /\ get_out' = RowGet(row, column_ref, target)
    /\ UNCHANGED << machine, row, column_ref, target, builder, pair >>

\* client.rs 301-305: with_credentials
WithCredentials(id, secret) ==
    /\ build_pc = "new"
    /\ factory' = [factory EXCEPT !.client_id = SomeStr(id), !.client_secret = SomeStr(secret)]
    /\ UNCHANGED << machine, getter, pair, build_pc, build_locals, build_calls, build_out >>

\* client.rs 307-310: with_database
WithDatabase(name) ==
    /\ build_pc = "new"
    /\ factory' = [factory EXCEPT !.database_name = SomeStr(name)]
    /\ UNCHANGED << machine, getter, pair, build_pc, build_locals, build_calls, build_out >>

\* client.rs 312-315: with_engine
WithEngine(name) ==
    /\ build_pc = "new"
    /\ factory' = [factory EXCEPT !.engine_name = SomeStr(name)]
    /\ UNCHANGED << machine, getter, pair, build_pc, build_locals, build_calls, build_out >>

\* client.rs 317-320: with_account
WithAccount(name) ==
    /\ build_pc = "new"
    /\ factory' = [factory EXCEPT !.account_name = SomeStr(name)]
    /\ UNCHANGED << machine, getter, pair, build_pc, build_locals, build_calls, build_out >>

\* client.rs 323-342: build checks the required parameters, reads the API endpoint
\* and calls the Authenticator
BuildStart ==
    /\ build_pc = "new"
    /\ IF Validate(factory) # NoError
       THEN /\ build_out' = BuildErr(Validate(factory))
            /\ build_pc' = "done"
            /\ UNCHANGED << build_locals, build_calls >>
       ELSE /\ \E env \in EnvValues :
                  build_locals' = [build_locals EXCEPT !.api_endpoint = GetApiEndpoint(env)]
            /\ build_calls' = Append(build_calls, "authenticate")
            /\ build_pc' = "authenticating"
            /\ UNCHANGED build_out
    /\ UNCHANGED << machine, getter, pair, factory >>

\* client.rs 337-344: the Authenticator returns a token and build asks for the
\* engine URL
BuildAuthSucceeds(new_token) ==
    /\ build_pc = "authenticating"
    /\ build_locals' = [build_locals EXCEPT !.token = new_token]
    /\ build_calls' = Append(build_calls, "GET engineUrl")
    /\ build_pc' = "engine_url"
    /\ UNCHANGED << machine, getter, pair, factory, build_out >>

\* client.rs 337-342: the Authenticator fails
BuildAuthFails(e) ==
    /\ build_pc = "authenticating"
    /\ build_out' = BuildErr(Err("Authentication", << e >>))
    /\ build_pc' = "done"
    /\ UNCHANGED << machine, getter, pair, factory, build_locals, build_calls >>

\* client.rs 344-371: the GET of the engine URL is answered; on success the client
\* is made, and build goes on to its USE queries or returns the client
BuildEngineUrl(resp) ==
    /\ build_pc = "engine_url"
    /\ IF ~GetEngineUrl(factory.account_name.v, resp).ok
       THEN /\ build_out' = BuildErr(GetEngineUrl(factory.account_name.v, resp).err)
            /\ build_pc' = "done"
            /\ UNCHANGED session
       ELSE /\ client_id' = factory.client_id.v
            /\ client_secret' = factory.client_secret.v
            /\ token' = build_locals.token
            /\ parameters' = EmptyMap
            /\ engine_url' = GetEngineUrl(factory.account_name.v, resp).url
            /\ api_endpoint' = build_locals.api_endpoint
            /\ build_pc' = StageAfter("engine_url", factory)
            /\ build_out' = IF StageAfter("engine_url", factory) = "done"
                            THEN BuildOk
                            ELSE build_out
    /\ UNCHANGED << frame, type_str, type_out, columns_out, body_in, body_out, getter, pair,
                    factory, build_locals, build_calls >>

\* client.rs 353-369: build calls query with a USE statement
BuildQuery ==
    /\ build_pc \in {"use_database", "use_engine"}
    /\ Query(UseSql(build_pc, factory))

\* client.rs 355-358 and 365-368: the USE query returns; build fails with its
\* error, or goes on
BuildQueryReturns ==
    /\ build_pc \in {"use_database", "use_engine"}
    /\ pc = "done"
    /\ IF ~result.ok
       THEN /\ build_out' = BuildErr(UseError(build_pc, result.err))
            /\ build_pc' = "done"
       ELSE /\ build_pc' = StageAfter(build_pc, factory)
            /\ build_out' = IF StageAfter(build_pc, factory) = "done" THEN BuildOk ELSE build_out
    /\ pc' = "idle"
    /\ url' = EmptyStr
    /\ sql' = ""
    /\ params' = EmptyMap
    /\ should_retry' = TRUE
    /\ response' = NoResponse
    /\ result' = Pending
    /\ requests' = << >>
    /\ handled' = << >>
    /\ auth_calls' = 0
    /\ auth_outcome' = NoAuth
    /\ pre' = NoPre
    /\ UNCHANGED << session, queries, type_str, type_out, columns_out, body_in, body_out,
                    getter, pair, factory, build_locals, build_calls >>

\* client.rs 22-91: the call of session i is given what it waits for and runs to
\* its next await, or returns
PeerHears(i, ev) ==
    /\ Awaited(peers[i], ev)
    /\ peers' = [peers EXCEPT ![Holder(i)] = PeerStep(peers[Holder(i)], ev)]
    /\ heard' = [heard EXCEPT ![i] = Append(heard[i], ev)]
    /\ UNCHANGED << machine, getter, builder >>

Next ==
    \/ \E s \in Sqls : Query(s)
    \/ NetworkFailure
    \/ ServerResponds
    \/ HandleResponse
    \/ \E tok \in AuthTokens : AuthSucceeds(tok)
    \/ \E e \in AuthErrors : AuthFails(e)
    \/ Return

Spec == Init /\ [][Next]_vars

\* one query of the same client, answered by a server that sends every header of
\* the model
HeaderNext ==
    \/ \E s \in Sqls : Query(s)
    \/ ServerRespondsHeaders
    \/ HandleResponse

HeaderSpec == Init /\ [][HeaderNext]_vars

\* the queries of one session, one after the other, each answered 200 or 401
SessionNext ==
    \/ \E s \in Sqls : Query(s)
    \/ ServerRespondsSession
    \/ HandleResponse
    \/ \E tok \in AuthTokens : AuthSucceeds(tok)
    \/ Return

SessionSpec == Init /\ [][SessionNext]_vars

\* the decoder called on its own, on every descriptor and body of the model
DecoderNext ==
    \/ ParseTypeCall
    \/ ParseColumnsCall
    \/ ParseResponseCall

DecoderSpec == DecoderInit /\ [][DecoderNext]_vars

\* Row::get called on its own, on every row, reference and target of the model
GetNext == RowGetCall

GetSpec == GetInit /\ [][GetNext]_vars

\* the server answers with any status and body and without session headers, or the
\* request fails
ServerRespondsPlain ==
    /\ pc = "awaiting"
    /\ UNCHANGED decoder
    /\ \E st \in Statuses, b \in Bodies :
          response' = [ status |-> st, body |-> b,
                        sent |-> [ update_endpoint |-> AbsentHeader,
                                   update_parameters |-> AbsentHeader,
                                   reset_session |-> AbsentHeader,
                                   remove_parameters |-> AbsentHeader ] ]
    /\ pc' = "received"
    /\ UNCHANGED << session, url, sql, params, should_retry, result, requests, handled,
                    auth_calls, auth_outcome, pre, queries >>

\* client.rs 39-91: the steps of execute_query_request after the request is built
Attempt ==
    \/ NetworkFailure
    \/ ServerRespondsPlain
    \/ HandleResponse
    \/ \E tok \in AuthTokens : AuthSucceeds(tok)
    \/ \E e \in AuthErrors : AuthFails(e)

FairNext ==
    \/ \E s \in Sqls : Query(s)
    \/ Attempt
    \/ Return

\* client.rs 52 and 59-65: the await of send() and the await of the Authenticator
\* return, and the code between two awaits runs to the next one
FairSpec == Init /\ [][FairNext]_vars /\ WF_vars(Attempt)

\* a factory is configured and build is called on it
FactoryNext ==
    \/ \E id \in FactoryIds, secret \in FactorySecrets : WithCredentials(id, secret)
    \/ WithDatabase("db")
    \/ WithEngine("eng")
    \/ \E name \in FactoryNames : WithAccount(name)
    \/ BuildStart
    \/ \E tok \in AuthTokens : BuildAuthSucceeds(tok)
    \/ \E e \in AuthErrors : BuildAuthFails(e)
    \/ \E resp \in EngineUrlResponses : BuildEngineUrl(resp)
    \/ BuildQuery
    \/ Attempt
    \/ BuildQueryReturns

FactorySpec == FactoryInit /\ [][FactoryNext]_vars

\* the calls of two sessions, interleaved at their awaits in every way
PairNext == \E i \in Sessions, ev \in PeerEvents : PeerHears(i, ev)

\* both sessions fresh, the observed client with no parameters
PairInit == Init /\ parameters = EmptyMap

PairSpec == PairInit /\ [][PairNext]_vars


(***************************************************************************)
(* Properties                                                               *)
(***************************************************************************)
\* the status of the response the call classified last
LastStatus == handled[Len(handled)]

\* the headers the server wrote
Sent == response.sent

\* every header of the response is one the client can parse
HeadersWellFormed ==
    /\ Sent.update_endpoint.wf
    /\ Sent.update_parameters.wf
    /\ Sent.reset_session.wf
    /\ Sent.remove_parameters.wf

\* the call has ended on a 2xx response
EndedOnSuccess == pc = "done" /\ handled # << >> /\ IsSuccess(LastStatus)

\* the keys of a sequence of pairs, and the keys of a sequence of keys
PairKeys(pairs) == {pairs[i][1] : i \in 1..Len(pairs)}

KeySet(keys) == {keys[i] : i \in 1..Len(keys)}

\* the value a sequence of pairs lists last for a key
LastListed(pairs, k) ==
    pairs[CHOOSE i \in 1..Len(pairs) :
              pairs[i][1] = k /\ \A j \in (i + 1)..Len(pairs) : pairs[j][1] # k][2]

\* a map with the listed pairs put over it
Upserted(m, pairs) ==
    [k \in (DOMAIN m) \cup PairKeys(pairs) |->
        IF k \in PairKeys(pairs) THEN LastListed(pairs, k) ELSE m[k]]

\* a map cut down to the keys of ks, and a map without the keys of ks
Restricted(m, ks) == [k \in (DOMAIN m) \cap ks |-> m[k]]

Without(m, ks) == [k \in (DOMAIN m) \ ks |-> m[k]]

\* C1: in one query call at most two HTTP requests are sent and the Authenticator is
\* called at most once; a second request is sent only after a first attempt that
\* returned 401 and an Authenticator call that succeeded.
C1_AtMostTwoRequests ==
    /\ Len(requests) <= 2
    /\ auth_calls <= 1
    /\ Len(requests) = 2 =>
          /\ handled # << >>
          /\ handled[1] = 401
          /\ auth_calls = 1
          /\ auth_outcome.called /\ auth_outcome.ok

\* a call that sent its second request has returned
C1_Witness == pc = "done" /\ Len(requests) = 2 /\ Len(handled) = 2

\* C2: a first attempt answered 401, a token refresh that succeeds and a retry
\* answered 2xx with well-formed headers and a decodable body make the call return
\* the decoded ResultSet, with the session token the one the Authenticator returned.
C2_RetryReturnsResult ==
    ( /\ pc = "done"
      /\ Len(handled) = 2
      /\ handled[1] = 401
      /\ IsSuccess(handled[2])
      /\ HeadersWellFormed
      /\ response.body \in DecodableBodies )
    => /\ result = Ok(Decoded(response.body))
       /\ token = auth_outcome.token

\* the retry returned the rows of GoodBody and the token changed from t0 to t1
C2_Witness ==
    /\ pc = "done"
    /\ handled = << 401, 200 >>
    /\ result = Ok(GoodResultSet)
    /\ pre.token = "t0"
    /\ token = "t1"
    /\ Sent.update_parameters.present

\* C3: a 401 on the attempt made with should_retry = false ends the call with the
\* Authentication error, with no further Authenticator call and no further request:
\* two consecutive 401s end after exactly two requests.
C3_SecondUnauthorizedFails ==
    (Len(handled) = 2 /\ handled[2] = 401)
    => /\ pc = "done"
       /\ ~should_retry
       /\ result = Fail(Err("Authentication", << "Authentication failed after token refresh" >>))
       /\ auth_calls = 1
       /\ Len(requests) = 2

\* two consecutive 401s
C3_Witness == pc = "done" /\ handled = << 401, 401 >> /\ ~should_retry

\* C4: when the first attempt returns 401 and the Authenticator fails, the call fails
\* with an Authentication error that wraps the Authenticator's message, and only one
\* request has been sent.
C4_RefreshFailureFails ==
    (auth_outcome.called /\ ~auth_outcome.ok)
    => /\ pc = "done"
       /\ handled = << 401 >>
       /\ result = Fail(Err("Authentication", << "Token refresh failed: ", auth_outcome.msg >>))
       /\ Len(requests) = 1

\* the Authenticator failed with invalid_client
C4_Witness ==
    /\ pc = "done"
    /\ auth_outcome.called /\ ~auth_outcome.ok
    /\ auth_outcome.msg = "invalid_client"
    /\ ~result.ok

\* the response classified last is neither 2xx nor 401
EndedOnServerError ==
    /\ handled # << >>
    /\ ~IsSuccess(LastStatus)
    /\ LastStatus # 401

\* C5 as claimed: every response that is neither 2xx nor 401 ends the call with the
\* Query error "Server error: " followed by the body.
C5_AlwaysQueryError ==
    EndedOnServerError
    => /\ pc = "done"
       /\ result = Fail(Err("Query", << "Server error: ", response.body.text >>))

\* C5, amended: a response that is neither 2xx nor 401 ends the call, on either
\* attempt, with the Query error "Server error: " followed by the body when the body
\* can be read and with a Network error when reading it fails; the Authenticator is
\* not called and no further request is sent because of that response.
C5_ServerErrorFails ==
    EndedOnServerError
    => /\ pc = "done"
       /\ result = IF response.body.readable
                   THEN Fail(Err("Query", << "Server error: ", response.body.text >>))
                   ELSE Fail(Err("Network", << "Failed to read error response" >>))
       /\ Len(requests) = Len(handled)
       /\ auth_calls = Len(handled) - 1

\* a 404 on the retry, its body read
C5_Witness ==
    /\ pc = "done"
    /\ handled = << 401, 404 >>
    /\ response.body = ErrorTextBody
    /\ result.err.kind = "Query"

\* C6: handling a response whose status is not 2xx leaves the session's parameters and
\* engine_url as they were, whatever Firebolt-* headers the response carries.
C6_ErrorResponseKeepsSession ==
    [][ (pc = "received" /\ ~IsSuccess(response.status))
        => (parameters' = parameters /\ engine_url' = engine_url) ]_vars

\* a 500 that carried an endpoint and a parameters header has been handled
C6_Witness ==
    /\ pc = "done"
    /\ handled = << 500 >>
    /\ Sent.update_endpoint.present /\ Sent.update_endpoint.wf
    /\ Sent.update_parameters.present /\ Sent.update_parameters.wf
    /\ Sent.remove_parameters.present
    /\ pre.parameters # EmptyMap
    /\ parameters = pre.parameters
    /\ engine_url = pre.engine_url

\* the parameters the four steps leave, from what the server meant by its headers
ExpectedParameters ==
    Without(
        IF Sent.reset_session.present
        THEN Restricted(Upserted(Upserted(pre.parameters, Sent.update_endpoint.url.query),
                                 Sent.update_parameters.pairs),
                        {s_database, s_engine})
        ELSE Upserted(Upserted(pre.parameters, Sent.update_endpoint.url.query),
                      Sent.update_parameters.pairs),
        KeySet(Sent.remove_parameters.keys))

\* C7: on a 2xx response the parameters end as (a) endpoint update, (b) parameters
\* update, (c) reset session, (d) remove parameters leave them, applied in that order,
\* an absent header doing nothing: other keys set by (a) or (b) are cleared by (c),
\* database and engine set by (b) survive (c), a key listed in (d) is absent.
C7_HeaderStepsInOrder ==
    (EndedOnSuccess /\ HeadersWellFormed)
    => /\ parameters = ExpectedParameters
       /\ Sent.reset_session.present => DOMAIN parameters \subseteq {s_database, s_engine}
       /\ \A k \in {s_database, s_engine} :
             (k \in PairKeys(Sent.update_parameters.pairs)
                 /\ k \notin KeySet(Sent.remove_parameters.keys))
             => (k \in DOMAIN parameters
                 /\ parameters[k] = LastListed(Sent.update_parameters.pairs, k))
       /\ \A k \in KeySet(Sent.remove_parameters.keys) : k \notin DOMAIN parameters

\* all four headers: database=d2,engine=e2 set by (b), kept by (c), database removed
\* by (d), the keys of the endpoint URL cleared by (c)
C7_Witness ==
    /\ EndedOnSuccess
    /\ Sent.update_endpoint.url = Url1
    /\ Sent.update_parameters.pairs = Pairs1
    /\ Sent.reset_session.present
    /\ Sent.remove_parameters.keys = Keys2
    /\ pre.parameters # EmptyMap
    /\ parameters = (s_engine :> << "e", "2" >>)

\* the response carries this header and no other Firebolt-* header
OnlyUpdateParameters ==
    /\ Sent.update_parameters.present
    /\ ~Sent.update_endpoint.present
    /\ ~Sent.reset_session.present
    /\ ~Sent.remove_parameters.present

OnlyResetSession ==
    /\ Sent.reset_session.present
    /\ ~Sent.update_endpoint.present
    /\ ~Sent.update_parameters.present
    /\ ~Sent.remove_parameters.present

OnlyRemoveParameters ==
    /\ Sent.remove_parameters.present
    /\ ~Sent.update_endpoint.present
    /\ ~Sent.update_parameters.present
    /\ ~Sent.reset_session.present

\* C8: a well-formed Firebolt-Update-Parameters header is merged into the parameters:
\* every listed key maps to the value listed last for it and every other key keeps
\* its value.
C8_UpdateParametersUpserts ==
    (EndedOnSuccess /\ OnlyUpdateParameters /\ Sent.update_parameters.wf)
    => /\ result.ok
       /\ DOMAIN parameters = (DOMAIN pre.parameters) \cup PairKeys(Sent.update_parameters.pairs)
       /\ \A k \in PairKeys(Sent.update_parameters.pairs) :
             parameters[k] = LastListed(Sent.update_parameters.pairs, k)
       /\ \A k \in (DOMAIN pre.parameters) \ PairKeys(Sent.update_parameters.pairs) :
             parameters[k] = pre.parameters[k]

\* k=1,k=2 over a session that holds database, engine and k
C8_Witness ==
    /\ EndedOnSuccess
    /\ OnlyUpdateParameters
    /\ Sent.update_parameters.pairs = Pairs2
    /\ s_database \in DOMAIN pre.parameters
    /\ parameters[<< "k" >>] = << "2" >>
    /\ parameters[s_database] = << "d" >>

\* C9: Firebolt-Reset-Session alone, whatever its value, leaves the parameters cut down
\* to database and engine: the two keep their values, are not created, and every other
\* key is removed.
C9_ResetKeepsDatabaseAndEngine ==
    (EndedOnSuccess /\ OnlyResetSession)
    => /\ result.ok
       /\ DOMAIN parameters = (DOMAIN pre.parameters) \cap {s_database, s_engine}
       /\ \A k \in DOMAIN parameters : parameters[k] = pre.parameters[k]

\* a session with engine and m, reset to engine alone
C9_Witness ==
    /\ EndedOnSuccess
    /\ OnlyResetSession
    /\ DOMAIN pre.parameters = {s_engine, << "m" >>}
    /\ DOMAIN parameters = {s_engine}

\* C10: Firebolt-Remove-Parameters deletes every listed key that is present, ignores
\* the listed keys that are absent and the empty entries, never fails on them, and
\* leaves every other key with its value.
C10_RemoveParametersDeletes ==
    (EndedOnSuccess /\ OnlyRemoveParameters /\ Sent.remove_parameters.wf)
    => /\ result.ok
       /\ DOMAIN parameters = (DOMAIN pre.parameters) \ KeySet(Sent.remove_parameters.keys)
       /\ \A k \in DOMAIN parameters : parameters[k] = pre.parameters[k]

\* " database , z " removes database, ignores z and keeps engine and k
C10_Witness ==
    /\ EndedOnSuccess
    /\ OnlyRemoveParameters
    /\ Sent.remove_parameters = KeysHeader(Keys2, "spaced")
    /\ s_database \in DOMAIN pre.parameters
    /\ DOMAIN parameters = {s_engine, << "k" >>}

\* an entry of a comma-separated list that is not blank and has no '=' or nothing
\* but blanks before its first '='
BadEntry(entry) ==
    /\ Trim(entry) # EmptyStr
    /\ \/ IndexOf(entry, "=") = 0
       \/ Trim(SubSeq(entry, 1, IndexOf(entry, "=") - 1)) = EmptyStr

HasBadEntry(value) ==
    \E i \in 1..Len(Split(value, ",")) : BadEntry(Split(value, ",")[i])

\* C11: a 2xx response whose Firebolt-Update-Parameters header holds a non-empty entry
\* without '=' or with an empty key makes the call fail with a HeaderParsing error,
\* although the status is 2xx and the body is a valid result: no ResultSet is returned.
C11_MalformedParametersFail ==
    ( /\ EndedOnSuccess
      /\ Sent.update_parameters.present
      /\ HasBadEntry(Sent.update_parameters.wire) )
    => /\ ~result.ok
       /\ result.err.kind = "HeaderParsing"
       /\ result.value = NoResultSet
       /\ (Sent.update_endpoint.wf /\ ToStrOk(Sent.update_parameters.wire))
             => result.err.msg[1] \in {"Invalid parameter format: ",
                                       "Parameter key cannot be empty"}

\* a 200 with the body of a result and the header "=v"
C11_Witness ==
    /\ EndedOnSuccess
    /\ response.body = GoodBody
    /\ Sent.update_parameters.wire = << "=", "v" >>
    /\ result = Fail(Err("HeaderParsing", << "Parameter key cannot be empty" >>))

\* the engine_url the endpoint header of the response asks for
ExpectedEngineUrl ==
    IF ~Sent.update_endpoint.present
    THEN pre.engine_url
    ELSE Sent.update_endpoint.url.scheme \o << ":", "/", "/" >> \o Sent.update_endpoint.url.host
            \o (IF Sent.update_endpoint.url.path = << "/" >>
                THEN EmptyStr
                ELSE Sent.update_endpoint.url.path)

\* C12: when the parameters update fails on a malformed entry, what the same response
\* had already changed stays in the session after the call has returned its error:
\* the engine_url and the parameters of the endpoint update and the pairs listed
\* before the malformed entry; the reset and the removal of that response are not done.
C12_PartialMutationStays ==
    ( /\ EndedOnSuccess
      /\ Sent.update_endpoint.wf
      /\ Sent.update_parameters.present
      /\ ToStrOk(Sent.update_parameters.wire)
      /\ HasBadEntry(Sent.update_parameters.wire) )
    => /\ ~result.ok
       /\ engine_url = ExpectedEngineUrl
       /\ parameters = Upserted(Upserted(pre.parameters, Sent.update_endpoint.url.query),
                                Sent.update_parameters.pairs)

\* "database=d2,engine=e2,m" after an endpoint update, with a reset and a removal of
\* database that are not done: k and m of the URL and database of the list stay
C12_Witness ==
    /\ EndedOnSuccess
    /\ Sent.update_endpoint.url = Url1
    /\ Sent.update_parameters = PartialPairsHeader(Pairs1, << "m" >>)
    /\ Sent.reset_session.present
    /\ Sent.remove_parameters.keys = Keys2
    /\ result.err.kind = "HeaderParsing"
    /\ engine_url = << "h", "t", "t", "p", "s", ":", "/", "/", "e", "2", "/", "p" >>
    /\ pre.engine_url = s_engine1
    /\ parameters[<< "m" >>] = << "w" >>
    /\ parameters[s_database] = << "d", "2" >>

\* the call has ended on a 2xx response with well-formed headers whose body
\* parse_response rejects
DecodeFailed ==
    /\ EndedOnSuccess
    /\ HeadersWellFormed
    /\ response.body \in UndecodableBodies

\* C13 as claimed: a call that fails because the 2xx body cannot be decoded returns
\* with the parameters, the engine_url and the token it was called with.
C13_DecodeFailureKeepsSession ==
    DecodeFailed
    => /\ ~result.ok
       /\ parameters = pre.parameters
       /\ engine_url = pre.engine_url
       /\ token = pre.token

\* C13, amended: decoding the body changes nothing, but it comes after the headers of
\* the response have been applied and after the token refresh of a retry: a call that
\* fails because the 2xx body cannot be decoded returns a Serialization or Query error
\* with the parameters and the engine_url that the headers of that response leave and
\* with the token of the refresh if there was one; without Firebolt-* headers and
\* without a refresh the session is as it was before the call.
C13_DecodeFailureKeepsHeaderUpdates ==
    DecodeFailed
    => /\ ~result.ok
       /\ result.err.kind \in {"Serialization", "Query"}
       /\ parameters = ExpectedParameters
       /\ engine_url = ExpectedEngineUrl
       /\ token = IF auth_outcome.called THEN auth_outcome.token ELSE pre.token
       /\ (Sent = NoHeaders /\ ~auth_outcome.called)
             => /\ parameters = pre.parameters
                /\ engine_url = pre.engine_url
                /\ token = pre.token

\* a retry answered 200 with a body without meta, an endpoint and a parameters header:
\* the call fails and the session has the new token, endpoint and parameters
C13_Witness ==
    /\ DecodeFailed
    /\ handled = << 401, 200 >>
    /\ response.body = NoMetaBody
    /\ result.err.kind = "Query"
    /\ Sent.update_endpoint.url = Url1
    /\ Sent.update_parameters.pairs = Pairs4
    /\ pre.token = "t0" /\ token = "t1"
    /\ engine_url # pre.engine_url
    /\ parameters # pre.parameters

\* C14 as claimed: every request of a call carries every session parameter with the
\* value it had when query was called, and output_format = JSON_Compact, and no more.
C14_RequestCarriesEveryParameter ==
    \A i \in 1..Len(requests) :
        /\ DOMAIN requests[i].query = (DOMAIN pre.parameters) \cup {s_output_format}
        /\ requests[i].query[s_output_format] = s_JSON_Compact
        /\ \A k \in DOMAIN pre.parameters : requests[i].query[k] = pre.parameters[k]

\* C14, amended: every request of a call (first attempt and retry) carries exactly the
\* keys of the session parameters of the moment query was called plus output_format;
\* output_format is always JSON_Compact, also when the session holds a parameter of
\* that name, and every other session parameter has its session value.
C14_RequestCarriesParameters ==
    \A i \in 1..Len(requests) :
        /\ DOMAIN requests[i].query = (DOMAIN pre.parameters) \cup {s_output_format}
        /\ requests[i].query[s_output_format] = s_JSON_Compact
        /\ \A k \in (DOMAIN pre.parameters) \ {s_output_format} :
              requests[i].query[k] = pre.parameters[k]

\* the retry of a query on a session that holds output_format = CSV and k = 9
C14_Witness ==
    /\ Len(requests) = 2
    /\ s_output_format \in DOMAIN pre.parameters
    /\ pre.parameters[s_output_format] = << "C", "S", "V" >>
    /\ requests[2].query[s_output_format] = s_JSON_Compact
    /\ requests[2].query[<< "k" >>] = << "9" >>
    /\ requests[2].authorization # requests[1].authorization

\* the response carries this header and no other Firebolt-* header
OnlyUpdateEndpoint ==
    /\ Sent.update_endpoint.present
    /\ ~Sent.update_parameters.present
    /\ ~Sent.reset_session.present
    /\ ~Sent.remove_parameters.present

\* C15: a Firebolt-Update-Endpoint header whose value parses as a URL sets engine_url
\* to scheme "://" host path, a root or empty path giving scheme "://" host (the host
\* is the host name: a port of the URL is not part of it), and puts every query
\* parameter of the URL into the parameters, the others keeping their values.
C15_EndpointUpdate ==
    (EndedOnSuccess /\ Sent.update_endpoint.present /\ Sent.update_endpoint.wf)
    => /\ engine_url = ExpectedEngineUrl
       /\ OnlyUpdateEndpoint
             => /\ result.ok
                /\ parameters = Upserted(pre.parameters, Sent.update_endpoint.url.query)

\* "e4/?database=d9" on a session that holds database, engine and k
C15_Witness ==
    /\ EndedOnSuccess
    /\ OnlyUpdateEndpoint
    /\ Sent.update_endpoint.url = Url3
    /\ engine_url = << "h", "t", "t", "p", "s", ":", "/", "/", "e", "4" >>
    /\ DOMAIN pre.parameters = {s_database, s_engine, << "k" >>}
    /\ pre.parameters[s_database] = << "d" >>
    /\ parameters[s_database] = << "d", "9" >>
    /\ parameters[<< "k" >>] = << "x" >>

\* C16 as claimed: the session keeps what a response changed, and the next query is
\* POSTed to the engine_url of the session with one '/' added when it does not end in
\* one, with every parameter of the session in its query-string.
C16_NextQueryUsesEveryUpdate ==
    [][ /\ (pc = "done" /\ pc' = "idle")
            => (parameters' = parameters /\ engine_url' = engine_url)
        /\ (pc = "idle" /\ pc' = "awaiting")
            => /\ requests'[1].url = IF engine_url[Len(engine_url)] = "/"
                                     THEN engine_url
                                     ELSE engine_url \o << "/" >>
               /\ \A k \in DOMAIN parameters :
                     /\ k \in DOMAIN requests'[1].query
                     /\ requests'[1].query[k] = parameters[k] ]_vars

\* C16, amended: the session keeps what a response changed until a later response
\* changes it again, and every later query is POSTed to the engine_url of the session
\* with one '/' added when it does not end in one, with every parameter of the session
\* other than output_format in its query-string; output_format is sent as JSON_Compact
\* whatever the session holds for it.
C16_NextQueryUsesUpdates ==
    [][ /\ (pc = "done" /\ pc' = "idle")
            => (parameters' = parameters /\ engine_url' = engine_url)
        /\ (pc = "idle" /\ pc' = "awaiting")
            => /\ requests'[1].url = IF engine_url[Len(engine_url)] = "/"
                                     THEN engine_url
                                     ELSE engine_url \o << "/" >>
               /\ requests'[1].query[s_output_format] = s_JSON_Compact
               /\ \A k \in (DOMAIN parameters) \ {s_output_format} :
                     /\ k \in DOMAIN requests'[1].query
                     /\ requests'[1].query[k] = parameters[k] ]_vars

\* the second query of a session that a response moved to "https://e2/p" with k = 9
C16_Witness ==
    /\ queries = 2
    /\ pc = "awaiting"
    /\ Len(requests) = 1
    /\ pre.engine_url = << "h", "t", "t", "p", "s", ":", "/", "/", "e", "2", "/", "p" >>
    /\ requests[1].url = << "h", "t", "t", "p", "s", ":", "/", "/", "e", "2", "/", "p", "/" >>
    /\ << "k" >> \in DOMAIN requests[1].query
    /\ requests[1].query[<< "k" >>] = << "9" >>

\* C17: in every ResultSet that parse_response returns, every row holds as many raw
\* values as there are columns.
C17_RowsAsWideAsColumns ==
    body_out.ok
    => \A i \in 1..Len(body_out.value.rows) :
          Len(body_out.value.rows[i].data) = Len(body_out.value.columns)

\* the document of body_in has no array under this field
FieldNotArray(field) ==
    \/ body_in.json.value.t # "object"
    \/ field \notin DOMAIN body_in.json.value.o
    \/ body_in.json.value.o[field].t # "array"

\* an element of the data array of body_in is not an array
RowNotArray ==
    /\ ~FieldNotArray("data")
    /\ \E i \in 1..Len(body_in.json.value.o["data"].a) :
          body_in.json.value.o["data"].a[i].t # "array"

\* C18: parse_response fails with Serialization on a body that is not JSON; on a JSON
\* body it fails with Query when meta is missing or not an array, when data is missing
\* or not an array and when an element of data is not an array; the JSON check comes
\* before the meta check and the meta check before the data check; a ResultSet is
\* returned only when none of these holds.
C18_DecodeFailuresByKind ==
    body_out # Pending
    => /\ ~body_in.json.ok
             => body_out = Fail(Err("Serialization", << "Failed to parse JSON" >>))
       /\ (body_in.json.ok /\ FieldNotArray("meta"))
             => body_out = Fail(Err("Query", << "Missing or invalid 'meta' field in response" >>))
       /\ (body_in.json.ok /\ ~FieldNotArray("meta") /\ FieldNotArray("data"))
             => /\ ~body_out.ok
                /\ body_out.err.kind = "Query"
                /\ body_out.err.msg[1] # "Missing or invalid 'meta' field in response"
       /\ (body_in.json.ok /\ ~FieldNotArray("meta") /\ RowNotArray)
             => /\ ~body_out.ok
                /\ body_out.err.kind = "Query"
       /\ body_out.ok
             => /\ body_in.json.ok
                /\ ~FieldNotArray("meta")
                /\ ~FieldNotArray("data")
                /\ ~RowNotArray

\* "{}" has neither meta nor data: the failure is the one of the meta
C18_Witness ==
    /\ body_in.text = "{}"
    /\ body_out = Fail(Err("Query", << "Missing or invalid 'meta' field in response" >>))

\* C19 as claimed: for every descriptor that parse_type accepts, the descriptor behind
\* "null::" is accepted with the same type, precision and scale and is nullable, and
\* the descriptor itself is not nullable.
C19_NullPrefixOnAnyDescriptor ==
    (type_out # TypeErr(Pending.err) /\ type_out.ok)
    => /\ ~type_out.is_nullable
       /\ ParseType(s_null_prefix \o type_str)
             = [type_out EXCEPT !.is_nullable = TRUE]

\* C19, amended: for every descriptor that parse_type accepts and that does not itself
\* start with "null::", the descriptor behind "null::" is accepted with the same type,
\* precision and scale and is nullable, and the descriptor itself is not nullable.
C19_NullPrefix ==
    ( /\ type_out # TypeErr(Pending.err)
      /\ type_out.ok
      /\ ~(Len(type_str) >= 6 /\ SubSeq(type_str, 1, 6) = << "n", "u", "l", "l", ":", ":" >>) )
    => /\ ~type_out.is_nullable
       /\ ParseType(s_null_prefix \o type_str).ok
       /\ ParseType(s_null_prefix \o type_str).is_nullable
       /\ ParseType(s_null_prefix \o type_str).type = type_out.type
       /\ ParseType(s_null_prefix \o type_str).precision = type_out.precision
       /\ ParseType(s_null_prefix \o type_str).scale = type_out.scale

\* "decimal(38, 9)" has been parsed: Decimal, precision 38, scale 9, not nullable
C19_Witness ==
    /\ type_str = << "d", "e", "c", "i", "m", "a", "l", "(", "3", "8", ",", " ", "9", ")" >>
    /\ type_out = TypeOk("Decimal", FALSE, Some(38), Some(9))

\* the descriptor without its "null::" prefix, if it has one
Unprefixed ==
    IF Len(type_str) >= 6 /\ SubSeq(type_str, 1, 6) = << "n", "u", "l", "l", ":", ":" >>
    THEN SubSeq(type_str, 7, Len(type_str))
    ELSE type_str

\* the whole text is decimal(<p>,<s>): digits, a comma, optional blanks, digits
IsDecimalForm(c) ==
    /\ Len(c) >= 12
    /\ SubSeq(c, 1, 8) = << "d", "e", "c", "i", "m", "a", "l", "(" >>
    /\ c[Len(c)] = ")"
    /\ \E comma \in 10..(Len(c) - 2) :
          /\ c[comma] = ","
          /\ \A x \in 9..(comma - 1) : c[x] \in Digits
          /\ \E first \in (comma + 1)..(Len(c) - 1) :
                /\ \A x \in (comma + 1)..(first - 1) : c[x] \in {" ", "\t"}
                /\ \A x \in first..(Len(c) - 1) : c[x] \in Digits

\* the text is one the grammar of wire types knows
InGrammar(c) ==
    \/ IsDecimalForm(c)
    \/ (Len(c) >= 5 /\ SubSeq(c, 1, 5) = << "a", "r", "r", "a", "y" >>)
    \/ (Len(c) >= 6 /\ SubSeq(c, 1, 6) = << "s", "t", "r", "u", "c", "t" >>)
    \/ c \in { << "i", "n", "t" >>, << "b", "i", "g", "i", "n", "t" >>, << "l", "o", "n", "g" >>,
               << "f", "l", "o", "a", "t", "4" >>, << "f", "l", "o", "a", "t" >>,
               << "d", "o", "u", "b", "l", "e" >>, << "f", "l", "o", "a", "t", "8" >>,
               << "d", "e", "c", "i", "m", "a", "l" >>, << "t", "e", "x", "t" >>,
               << "s", "t", "r", "i", "n", "g" >>, << "d", "a", "t", "e" >>,
               << "t", "i", "m", "e", "s", "t", "a", "m", "p" >>,
               << "t", "i", "m", "e", "s", "t", "a", "m", "p", "t", "z" >>,
               << "b", "o", "o", "l" >>, << "b", "o", "o", "l", "e", "a", "n" >>,
               << "b", "y", "t", "e", "a" >>, << "g", "e", "o", "g", "r", "a", "p", "h", "y" >> }

\* C20: parse_type fails with the error that names the text for every descriptor that,
\* once an optional "null::" is stripped, is not decimal(<p>,<s>), does not start with
\* "array" or "struct" and is no alias of the table; parse_columns fails whenever a
\* meta entry has such a type.
C20_UnknownTypeFails ==
    ~InGrammar(Unprefixed)
    => /\ type_out # TypeErr(Pending.err)
             => type_out = TypeErr(Err("Query", << "Unsupported type: ", Unprefixed >>))
       /\ columns_out # ColumnsErr(Pending.err)
             => columns_out = ColumnsErr(Err("Query", << "Unsupported type: ", Unprefixed >>))

\* C26: the retry sent after a token refresh has the URL, the query-string parameters
\* and the SQL body of the first request, all as query fixed them, and carries the
\* token the Authenticator returned; the first request carries the token the session
\* held when query was called.
C26_RetryResendsSameRequest ==
    /\ Len(requests) >= 1 =>
          /\ requests[1].authorization = << "Bearer ", pre.token >>
          /\ requests[1].url = ensure_trailing_slash(pre.engine_url)
          /\ requests[1].query = MapInsert(pre.parameters, s_output_format, s_JSON_Compact)
          /\ requests[1].body = sql
    /\ Len(requests) = 2 =>
          /\ requests[2].url = requests[1].url
          /\ requests[2].query = requests[1].query
          /\ requests[2].body = requests[1].body
          /\ requests[2].method = requests[1].method
          /\ requests[2].authorization = << "Bearer ", auth_outcome.token >>

\* a retry went out with a token that differs from the token of the first attempt
C26_Witness ==
    /\ Len(requests) = 2
    /\ requests[1].authorization = << "Bearer ", "t0" >>
    /\ requests[2].authorization = << "Bearer ", "t1" >>
    /\ requests[2].query # EmptyMap

\* the kinds of error a query call ends with
QueryErrorKinds == {"Authentication", "Query", "Network", "HeaderParsing", "Serialization"}

\* the call has ended in exactly one of its outcomes
OneOutcome ==
    /\ result # Pending
    /\ result.ok => result.err = NoError
    /\ ~result.ok => result.err.kind \in QueryErrorKinds /\ result.value = NoResultSet

\* C27: when every HTTP request and every Authenticator call returns, every query call
\* ends, with a ResultSet or with one error of the five kinds, after at most two
\* attempts, the second of which runs with should_retry = false.
C27_QueryTerminates ==
    /\ (pc \in {"awaiting", "received", "authenticating"}) ~> (pc = "done" /\ OneOutcome)
    /\ [](pc = "done" => OneOutcome)
    /\ [](Len(handled) <= 2 /\ (Len(requests) = 2 => ~should_retry))

\* a call ended on its second attempt
C27_Witness ==
    /\ pc = "done"
    /\ Len(handled) = 2
    /\ ~should_retry
    /\ OneOutcome

\* C30: a query writes the token only when its first attempt got 401 and the
\* Authenticator then returned a token; the session then holds that token whatever
\* the retry ends with; in every other call the token is the one held at the call;
\* client_id, client_secret and api_endpoint never change.
C30_TokenFrame ==
    /\ client_id = "test_id"
    /\ client_secret = "test_secret"
    /\ api_endpoint = "https://api.app.firebolt.io"
    /\ pc # "idle" =>
          IF auth_outcome.called /\ auth_outcome.ok
          THEN /\ token = auth_outcome.token
               /\ handled[1] = 401
               /\ Len(requests) = 2
          ELSE token = pre.token

\* the retry after a refresh failed and the session still holds the new token
C30_Witness ==
    /\ pc = "done"
    /\ handled = << 401, 500 >>
    /\ ~result.ok
    /\ pre.token = "t0"
    /\ token = "t1"


\* the descriptor starts with "null::"
Prefixed == Unprefixed # type_str

\* C28: parse_type returns (Array, is_nullable, None, None) for every descriptor whose
\* text after an optional "null::" starts with "array", whatever the element type;
\* precision and scale are Some only for a descriptor that is decimal(<p>,<s>).
C28_ArrayWhateverElement ==
    type_out # TypeErr(Pending.err)
    => /\ StartsWith(Unprefixed, s_array)
             => type_out = TypeOk("Array", Prefixed, None, None)
       /\ (type_out.precision.some \/ type_out.scale.some) => IsDecimalForm(Unprefixed)

\* Row::get has returned
GetReturned == get_out # GetErr(Pending.err)

\* the column a reference stands for: the ordinal itself, or the lowest position
\* of a column that has the name (the positions count from 0)
Referred ==
    IF column_ref.by = "index"
    THEN column_ref.index
    ELSE CHOOSE x \in Named(row.columns, column_ref.name) :
            \A y \in Named(row.columns, column_ref.name) : x <= y

\* C21: Row::get resolves an ordinal i to column i when 0 <= i < columns.len() and
\* fails with "column index out of bounds" otherwise; it resolves a name to the
\* lowest column of that name and fails with "column not found" when there is none;
\* it converts the row value at the resolved position with that column's type.
C21_GetResolvesColumn ==
    GetReturned
    => IF column_ref.by = "index" /\ column_ref.index >= Len(row.columns)
       THEN get_out = GetErr(Err("Query", << "Column index ", column_ref.index,
                                            " out of bounds" >>))
       ELSE IF column_ref.by = "name" /\ Named(row.columns, column_ref.name) = {}
       THEN get_out = GetErr(Err("Query", << "Column '", column_ref.name, "' not found" >>))
       ELSE /\ Referred < Len(row.data)
            /\ get_out = ConvertFromJson(target, row.data[Referred + 1],
                                         row.columns[Referred + 1].type)

\* get has converted a value of the row
Converted ==
    /\ GetReturned
    /\ Resolve(row.columns, column_ref).ok
    /\ Resolve(row.columns, column_ref).index < Len(row.data)

\* the value and the column that get has converted
RawValue == row.data[Resolve(row.columns, column_ref).index + 1]

Declared == row.columns[Resolve(row.columns, column_ref).index + 1].type

\* get has failed with a Serialization error
SerializationError == ~get_out.ok /\ get_out.err.kind = "Serialization"

\* C22: whatever the declared type of the column, a JSON null converts to "no
\* value" for each Option target and fails with a Serialization error for each
\* plain target.
C22_NullByTarget ==
    (Converted /\ RawValue = JNull /\ target # RawTarget)
    => IF target.option THEN get_out = NoValue ELSE SerializationError

\* a null in a Text column read as Option<i32> gave no value
C22_Witness ==
    /\ Converted
    /\ RawValue = JNull
    /\ Declared = "Text"
    /\ target = [family |-> "i32", option |-> TRUE]
    /\ get_out = NoValue

\* C23: for every target but the raw value and every value that is not null, get
\* fails with a Serialization error when the declared type of the column is not the
\* one type the target expects.
C23_WrongTypeFails ==
    ( /\ Converted
      /\ RawValue # JNull
      /\ target # RawTarget
      /\ Declared # ExpectedType(target.family) )
    => SerializationError

\* a string in an Int column read as String failed although the value is a string
C23_Witness ==
    /\ Converted
    /\ RawValue = JStr(<< "a", "b" >>)
    /\ Declared = "Int"
    /\ target = [family |-> "String", option |-> FALSE]
    /\ get_out = ConvErr(<< "Cannot convert ", "Int", " to ", "String" >>)

\* the literal spells an integer n with -2^31 <= n <= 2^31 - 1
InI32Range(literal) ==
    /\ IsIntegerLiteral(literal)
    /\ \/ Len(Unsigned(literal, {"-"})) < 10
       \/ /\ Len(Unsigned(literal, {"-"})) = 10
          /\ DigitsLeq(Unsigned(literal, {"-"}),
                       IF literal[1] = "-"
                       THEN s_i32_min
                       ELSE << "2", "1", "4", "7", "4", "8", "3", "6", "4", "7" >>)

\* the digits of a natural number
RECURSIVE DigitsOf(_)
DigitsOf(n) ==
    IF n < 10
    THEN << CHOOSE c \in Digits : DigitVal(c) = n >>
    ELSE DigitsOf(n \div 10) \o << CHOOSE c \in Digits : DigitVal(c) = n % 10 >>

\* the literal of an i32
LiteralOf(n) ==
    IF n >= 0 THEN DigitsOf(n)
    ELSE IF n = -2147483647 - 1 THEN << "-" >> \o s_i32_min
    ELSE << "-" >> \o DigitsOf(0 - n)

=============================================================================
